---- MODULE Spec2Model ----
(***************************************************************************)
(* Execution-plan analysis of the Advanced SQL Server Toolkit:             *)
(*   parse_execution_plan of 001_analyze_execution_plans.py (two-plan      *)
(*   tool) and of 003_analyze_single_plan.py (single-plan tool), and       *)
(*   compare_plans of 001_analyze_execution_plans.py.                      *)
(*                                                                         *)
(* A showplan document is a sequence of elements in document order, each   *)
(* with its tag (local name in the showplan namespace), the index of its   *)
(* parent (0 for the root) and its attributes (a function from attribute   *)
(* names to strings).  Python floats are represented exactly as integer    *)
(* numbers of halves (1.5 is 3); Python None is the string PyNone, which   *)
(* no attribute value of a modelled document equals.                       *)
(***************************************************************************)
EXTENDS Integers, Sequences, FiniteSets, TLC

VARIABLES
    parser,     \* which script's parse_execution_plan runs: "001" or "003"
    input,      \* the file handed to the parser: [kind, doc]
    pc,         \* position of the parser: "start", "loop", "returned", "raised"
    stmts,      \* root.findall('.//sp:StmtSimple'): element indices, document order
    idx,        \* position of the for-loop over stmts (1-based, next to process)
    result,     \* the result dictionary under construction
    plan1,      \* compare_plans: first plan (display name and summary)
    plan2,      \* compare_plans: second plan
    cmp12,      \* compare_plans(plan1, plan2), or NoResult before the call
    cmp21,      \* compare_plans(plan2, plan1), or NoResult before the call
    job,        \* main of the two-plan tool: configuration, files, position, output
    pipe,       \* a three-step pipeline of a CLI: position and step results
    uq,         \* _uniquify: input names, names seen, output, loop position
    se,         \* script_executer: scripts, temporary files, connection
    etl         \* system-catalog ETL: servers, databases, target tables

parseVars == <<parser, input, pc, stmts, idx, result>>
cmpVars == <<plan1, plan2, cmp12, cmp21>>
others == <<job, pipe, uq, se, etl>>
vars == <<parser, input, pc, stmts, idx, result, plan1, plan2, cmp12, cmp21,
          job, pipe, uq, se, etl>>

\* the value of the variable of a program that is not running
Idle == [idle |-> TRUE]

-----------------------------------------------------------------------------
(* Python values *)

PyNone == "<None>"

\* int(s) for the attribute strings of the modelled documents; a string outside
\* the table ("1.5", "abc", "") makes int() raise ValueError.
IntLiteral ==
    ("0" :> 0) @@ ("1" :> 1) @@ ("2" :> 2) @@ ("3" :> 3) @@ ("5" :> 5)

\* float(s), in halves; every int literal is a float literal, "abc" is not.
FloatLiteral ==
    [s \in DOMAIN IntLiteral |-> 2 * IntLiteral[s]] @@ ("0.5" :> 1) @@ ("1.5" :> 3)

\* float(n) of a Python int, in halves
PyFloat(n) == 2 * n

-----------------------------------------------------------------------------
(* xml.etree.ElementTree *)

NoAttrs == [a \in {} |-> ""]

Elem(tag, parent, attrs) == [tag |-> tag, parent |-> parent, attrs |-> attrs]

\* element.get(name): the attribute, or None
Get(el, name) == IF name \in DOMAIN el.attrs THEN el.attrs[name] ELSE PyNone

\* element.get(name, default)
GetOr(el, name, default) ==
    IF name \in DOMAIN el.attrs THEN el.attrs[name] ELSE default

\* int(element.get(name, d)) returns; otherwise it raises ValueError
CanInt(el, name) ==
    name \in DOMAIN el.attrs => el.attrs[name] \in DOMAIN IntLiteral

GetInt(el, name, d) ==
    IF name \in DOMAIN el.attrs THEN IntLiteral[el.attrs[name]] ELSE d

\* float(element.get(name, d)) returns; otherwise it raises ValueError
CanFloat(el, name) ==
    name \in DOMAIN el.attrs => el.attrs[name] \in DOMAIN FloatLiteral

GetFloat(el, name, d) ==
    IF name \in DOMAIN el.attrs THEN FloatLiteral[el.attrs[name]] ELSE PyFloat(d)

RECURSIVE IsAncestor(_, _, _)
\* a is a proper ancestor of element j
IsAncestor(doc, a, j) ==
    LET p == doc[j].parent
    IN  IF p = 0 THEN FALSE
        ELSE IF p = a THEN TRUE
        ELSE IsAncestor(doc, a, p)

Indices(doc) == [i \in 1..Len(doc) |-> i]

\* e.findall('.//sp:tag'): the descendants of e with that tag, document order
FindAll(doc, e, tag) ==
    SelectSeq(Indices(doc), LAMBDA j : IsAncestor(doc, e, j) /\ doc[j].tag = tag)

\* the first element of a findall result, or None (0)
First(s) == IF s = <<>> THEN 0 ELSE Head(s)

\* e.find('.//sp:tag')
Find(doc, e, tag) == First(FindAll(doc, e, tag))

\* e.findall('.//sp:tag[@attr="val"]')
FindAllAttrEq(doc, e, tag, attr, val) ==
    SelectSeq(FindAll(doc, e, tag),
              LAMBDA j : attr \in DOMAIN doc[j].attrs /\ doc[j].attrs[attr] = val)

\* e.findall('.//sp:tag[@attr]')
FindAllHasAttr(doc, e, tag, attr) ==
    SelectSeq(FindAll(doc, e, tag), LAMBDA j : attr \in DOMAIN doc[j].attrs)

\* list(e): the children of e, document order
Children(doc, e) == SelectSeq(Indices(doc), LAMBDA j : doc[j].parent = e)

\* the children of e with a tag
ChildrenTagged(doc, e, tag) ==
    SelectSeq(Children(doc, e), LAMBDA j : doc[j].tag = tag)

RECURSIVE Flatten(_)
Flatten(ss) == IF ss = <<>> THEN <<>> ELSE Head(ss) \o Flatten(Tail(ss))

\* e.findall('.//sp:outer/sp:inner'): for each descendant outer in document
\* order, its children tagged inner
FindAllChildPath(doc, e, outer, inner) ==
    LET os == FindAll(doc, e, outer)
    IN  Flatten([k \in 1..Len(os) |-> ChildrenTagged(doc, os[k], inner)])

\* e.findall('.//sp:outer//sp:inner[@attr]')
FindAllDescPathHasAttr(doc, e, outer, inner, attr) ==
    LET os == FindAll(doc, e, outer)
    IN  Flatten([k \in 1..Len(os) |-> FindAllHasAttr(doc, os[k], inner, attr)])

\* e.findall('.//sp:outer/sp:inner[@attr]')
FindAllChildPathHasAttr(doc, e, outer, inner, attr) ==
    SelectSeq(FindAllChildPath(doc, e, outer, inner),
              LAMBDA j : attr \in DOMAIN doc[j].attrs)

RECURSIVE Join(_, _)
\* sep.join(strings)
Join(sep, ss) ==
    IF ss = <<>> THEN ""
    ELSE IF Len(ss) = 1 THEN ss[1]
    ELSE ss[1] \o sep \o Join(sep, Tail(ss))

-----------------------------------------------------------------------------
(* parse_execution_plan: one operator node (the body of the RelOp loop) *)

\* columns[:10]
OutputListLimit == 10

\* f"[{database}].[{schema}].[{table}]" if database else f"[{schema}].[{table}]"
TableRef(obj) ==
    LET database == GetOr(obj, "Database", "")
        schema == GetOr(obj, "Schema", "")
        table == GetOr(obj, "Table", "")
    IN  IF database # ""
        THEN "[" \o database \o "].[" \o schema \o "].[" \o table \o "]"
        ELSE "[" \o schema \o "].[" \o table \o "]"

\* the reference built from the Object of an IndexScan: with the index name
\* when the Object carries a non-empty Index
IndexRef(obj) ==
    LET index == GetOr(obj, "Index", "")
    IN  IF index # "" THEN TableRef(obj) \o ".[" \o index \o "]" ELSE TableRef(obj)

\* table_index after the "Check for Index Scan/Seek" block
IndexScanTableIndex(doc, op) ==
    LET index_scan == Find(doc, op, "IndexScan")
        obj == IF index_scan # 0 THEN Find(doc, index_scan, "Object") ELSE 0
    IN  IF obj # 0 THEN IndexRef(doc[obj]) ELSE ""

\* table_index after the "Check for Table Scan" block, entered with table_index = prev
TableScanTableIndex(doc, op, prev) ==
    LET table_scan == Find(doc, op, "TableScan")
        obj == IF table_scan # 0 THEN Find(doc, table_scan, "Object") ELSE 0
    IN  IF obj # 0 THEN TableRef(doc[obj]) ELSE prev

RECURSIVE UpdateOpTableIndex(_, _, _)
\* the for-loop over ['Update', 'Insert', 'Delete']: the first element present
\* decides, and the loop breaks there whether or not it holds an Object
UpdateOpTableIndex(doc, op, op_names) ==
    IF op_names = <<>> THEN ""
    ELSE LET update_op == Find(doc, op, Head(op_names))
             obj == IF update_op # 0 THEN Find(doc, update_op, "Object") ELSE 0
         IN  IF update_op # 0
             THEN (IF obj # 0 THEN TableRef(doc[obj]) ELSE "")
             ELSE UpdateOpTableIndex(doc, op, Tail(op_names))

\* table_index of an operator node
TableIndex(doc, op) ==
    LET t == TableScanTableIndex(doc, op, IndexScanTableIndex(doc, op))
    IN  IF t = "" THEN UpdateOpTableIndex(doc, op, <<"Update", "Insert", "Delete">>)
        ELSE t

\* seek_predicates of an operator node
SeekPredicates(doc, op) ==
    LET index_scan == Find(doc, op, "IndexScan")
        seek_preds == IF index_scan = 0 THEN <<>>
                      ELSE FindAllDescPathHasAttr(doc, index_scan, "SeekPredicates",
                                                  "ScalarOperator", "ScalarString")
        texts == [k \in 1..Len(seek_preds) |-> doc[seek_preds[k]].attrs["ScalarString"]]
    IN  Join(" AND ", SelectSeq(texts, LAMBDA t : t # ""))

\* the ScalarString of the first Predicate/ScalarOperator[@ScalarString] under a
\* scan element, or prev when there is none
ScanPredicate(doc, scan, prev) ==
    LET pred_elem == IF scan = 0 THEN 0
                     ELSE First(FindAllChildPathHasAttr(doc, scan, "Predicate",
                                                        "ScalarOperator", "ScalarString"))
    IN  IF pred_elem # 0 THEN doc[pred_elem].attrs["ScalarString"] ELSE prev

\* predicate of an operator node: the index scan's, replaced by the table scan's
Predicate(doc, op) ==
    ScanPredicate(doc, Find(doc, op, "TableScan"),
                  ScanPredicate(doc, Find(doc, op, "IndexScan"), ""))

\* OutputList that cuts the list without the '...' marker
OutputList_NoMarker(doc, op) ==
    LET output_elem == Find(doc, op, "OutputList")
        refs == IF output_elem = 0 THEN <<>>
                ELSE FindAll(doc, output_elem, "ColumnReference")
        names == [k \in 1..Len(refs) |-> GetOr(doc[refs[k]], "Column", "")]
        columns == SelectSeq(names, LAMBDA c : c # "")
    IN  Join(", ", IF Len(columns) > OutputListLimit
                   THEN SubSeq(columns, 1, OutputListLimit) ELSE columns)

\* output_list of an operator node
OutputList(doc, op) ==
    LET output_elem == Find(doc, op, "OutputList")
        refs == IF output_elem = 0 THEN <<>>
                ELSE FindAll(doc, output_elem, "ColumnReference")
        names == [k \in 1..Len(refs) |-> GetOr(doc[refs[k]], "Column", "")]
        columns == SelectSeq(names, LAMBDA c : c # "")
        shown == IF Len(columns) > OutputListLimit
                 THEN SubSeq(columns, 1, OutputListLimit) ELSE columns
    IN  IF Len(columns) > OutputListLimit
        THEN Join(", ", shown) \o "..." ELSE Join(", ", shown)

\* warnings of an operator node: the child tags of the first Warnings element
NodeWarnings(doc, op) ==
    LET warnings_elem == Find(doc, op, "Warnings")
        kids == IF warnings_elem = 0 THEN <<>> ELSE Children(doc, warnings_elem)
    IN  Join(", ", [k \in 1..Len(kids) |-> doc[kids[k]].tag])

\* op.find('.//sp:RunTimeInformation/sp:RunTimeCountersPerThread')
NodeRuntimeInfo(doc, op) ==
    First(FindAllChildPath(doc, op, "RunTimeInformation", "RunTimeCountersPerThread"))

\* every float() and int() of the loop body returns
NodeConverts(doc, op) ==
    LET runtime_info == NodeRuntimeInfo(doc, op)
    IN  /\ \A a \in {"EstimatedTotalSubtreeCost", "EstimateRows", "EstimateCPU",
                     "EstimateIO", "EstimateExecutions"} : CanFloat(doc[op], a)
        /\ runtime_info # 0 =>
             \A a \in {"ActualRows", "ActualExecutions", "ActualRebinds",
                       "ActualRewinds"} : CanInt(doc[runtime_info], a)

\* float(op.get('EstimateExecutions', 1))
EstimatedExecutions(el) == GetFloat(el, "EstimateExecutions", 1)

\* node_info
NodeInfo(doc, op, statement_id, node_id) ==
    LET el == doc[op]
        runtime_info == NodeRuntimeInfo(doc, op)
        rt(a) == IF runtime_info # 0 THEN GetInt(doc[runtime_info], a, 0) ELSE 0
    IN  [statement_id |-> statement_id,
         node_id |-> node_id,
         node_type |-> Get(el, "LogicalOp"),
         physical_op |-> GetOr(el, "PhysicalOp", ""),
         logical_op |-> Get(el, "LogicalOp"),
         estimated_cost |-> GetFloat(el, "EstimatedTotalSubtreeCost", 0),
         estimated_rows |-> GetFloat(el, "EstimateRows", 0),
         estimated_cpu_cost |-> GetFloat(el, "EstimateCPU", 0),
         estimated_io_cost |-> GetFloat(el, "EstimateIO", 0),
         estimated_executions |-> EstimatedExecutions(el),
         parallel |-> IF Get(el, "Parallel") = "1" \/ Get(el, "Parallel") = "true"
                      THEN "Yes" ELSE "No",
         actual_rows |-> rt("ActualRows"),
         actual_executions |-> rt("ActualExecutions"),
         actual_rebinds |-> rt("ActualRebinds"),
         actual_rewinds |-> rt("ActualRewinds"),
         table_index |-> TableIndex(doc, op),
         seek_predicates |-> SeekPredicates(doc, op),
         predicate |-> Predicate(doc, op),
         output_list |-> OutputList(doc, op),
         warnings |-> NodeWarnings(doc, op)]

\* NodeDetails whose node_id counts the RelOp elements of the whole document
NodeDetails_NoRestart(doc, stmt, statement_id) ==
    LET ops == FindAll(doc, stmt, "RelOp")
        before(op) == Len(SelectSeq(FindAll(doc, 1, "RelOp"), LAMBDA j : j <= op))
    IN  [k \in 1..Len(ops) |-> NodeInfo(doc, ops[k], statement_id, before(ops[k]))]

\* node_details of a statement: one node per RelOp below it, numbered from 1
NodeDetails(doc, stmt, statement_id) ==
    LET ops == FindAll(doc, stmt, "RelOp")
    IN  [k \in 1..Len(ops) |-> NodeInfo(doc, ops[k], statement_id, k)]

\* operators of a statement (003 only): type, cost and rows of each RelOp
Operators(doc, stmt) ==
    LET ops == FindAll(doc, stmt, "RelOp")
    IN  [k \in 1..Len(ops) |->
            [type |-> Get(doc[ops[k]], "LogicalOp"),
             estimated_cost |-> GetFloat(doc[ops[k]], "EstimatedTotalSubtreeCost", 0),
             estimated_rows |-> GetFloat(doc[ops[k]], "EstimateRows", 0)]]

-----------------------------------------------------------------------------
(* parse_execution_plan: one statement (the body of the StmtSimple loop) *)

\* [col.get('Name') for col in col_group.findall('.//sp:Column', ns)]
ColumnNames(doc, col_group) ==
    LET cols == FindAll(doc, col_group, "Column")
    IN  [k \in 1..Len(cols) |-> Get(doc[cols[k]], "Name")]

RECURSIVE UsageColumns(_, _, _, _)
\* the loop over the ColumnGroup elements for one usage: each group tagged
\* with the usage assigns its columns to the list, replacing what was there
UsageColumns(doc, col_groups, usage, cols) ==
    IF col_groups = <<>> THEN cols
    ELSE UsageColumns(doc, Tail(col_groups), usage,
                      IF Get(doc[Head(col_groups)], "Usage") = usage
                      THEN ColumnNames(doc, Head(col_groups)) ELSE cols)

\* the dictionary appended for one MissingIndexGroup that holds a MissingIndex
MissingIndexInfo(doc, group) ==
    LET missing_index == Find(doc, group, "MissingIndex")
        col_groups == FindAll(doc, missing_index, "ColumnGroup")
    IN  [impact_percent |-> GetFloat(doc[group], "Impact", 0),
         database |-> GetOr(doc[missing_index], "Database", ""),
         schema |-> GetOr(doc[missing_index], "Schema", ""),
         table |-> GetOr(doc[missing_index], "Table", ""),
         equality_columns |-> UsageColumns(doc, col_groups, "EQUALITY", <<>>),
         inequality_columns |-> UsageColumns(doc, col_groups, "INEQUALITY", <<>>),
         include_columns |-> UsageColumns(doc, col_groups, "INCLUDE", <<>>)]

\* missing_indexes of a statement
MissingIndexes(doc, stmt) ==
    LET groups == SelectSeq(FindAll(doc, stmt, "MissingIndexGroup"),
                            LAMBDA g : Find(doc, g, "MissingIndex") # 0)
    IN  [k \in 1..Len(groups) |-> MissingIndexInfo(doc, groups[k])]

\* IsDuplicate that compares database, schema and table only
IsDuplicate_TableOnly(existing, mi) ==
    \E k \in 1..Len(existing) :
        /\ existing[k].database = mi.database
        /\ existing[k].schema = mi.schema
        /\ existing[k].table = mi.table

\* is_duplicate of 003: an entry of the summary agrees on the six fields
IsDuplicate(existing, mi) ==
    \E k \in 1..Len(existing) :
        /\ existing[k].database = mi.database
        /\ existing[k].schema = mi.schema
        /\ existing[k].table = mi.table
        /\ existing[k].equality_columns = mi.equality_columns
        /\ existing[k].inequality_columns = mi.inequality_columns
        /\ existing[k].include_columns = mi.include_columns

RECURSIVE AddDeduplicated(_, _)
\* summary.missing_indexes of 003 after the hints of one statement
AddDeduplicated(existing, hints) ==
    IF hints = <<>> THEN existing
    ELSE AddDeduplicated(IF IsDuplicate(existing, Head(hints)) THEN existing
                         ELSE Append(existing, Head(hints)),
                         Tail(hints))

\* summary.missing_indexes of 001 after the hints of one statement
AddAll(existing, hints) == existing \o hints

\* warning_entry: type and statement_id, then update(child.attrib)
WarningEntry(doc, child, statement_id) ==
    doc[child].attrs @@ [type |-> doc[child].tag, statement_id |-> statement_id]

\* warnings of a statement: every child of every Warnings element below it
StatementWarnings(doc, stmt, statement_id) ==
    LET warning_elements == FindAll(doc, stmt, "Warnings")
        kids == Flatten([k \in 1..Len(warning_elements) |->
                            Children(doc, warning_elements[k])])
    IN  [k \in 1..Len(kids) |-> WarningEntry(doc, kids[k], statement_id)]

\* stmt.find('.//sp:QueryTimeStats', ns)
QueryTimeStats(doc, stmt) == Find(doc, stmt, "QueryTimeStats")

\* 001: stmt.find('.//sp:RunTimeCountersPerThread[@Thread="0"]', ns)
RuntimeCounters001(doc, stmt) ==
    First(FindAllAttrEq(doc, stmt, "RunTimeCountersPerThread", "Thread", "0"))

\* 003: stmt.find('.//sp:RunTimeCountersPerThread', ns), for io_stats and again
\* for runtime_counters
RuntimeCounters003(doc, stmt) == Find(doc, stmt, "RunTimeCountersPerThread")

RuntimeCounters(p, doc, stmt) ==
    IF p = "001" THEN RuntimeCounters001(doc, stmt) ELSE RuntimeCounters003(doc, stmt)

\* 001: 'wait_time_ms': elapsed_time - cpu_time
WaitTime001(elapsed_time, cpu_time) == elapsed_time - cpu_time

\* 003: wait_time_ms = 0, never assigned again
WaitTime003(elapsed_time, cpu_time) == 0

\* every float() and int() of one iteration of the statement loop returns
StatementConverts(p, doc, stmt) ==
    LET qts == QueryTimeStats(doc, stmt)
        rtc == RuntimeCounters(p, doc, stmt)
        groups == FindAll(doc, stmt, "MissingIndexGroup")
        ops == FindAll(doc, stmt, "RelOp")
    IN  /\ CanFloat(doc[stmt], "StatementSubTreeCost")
        /\ CanFloat(doc[stmt], "StatementEstRows")
        /\ qts # 0 => CanInt(doc[qts], "CpuTime") /\ CanInt(doc[qts], "ElapsedTime")
        /\ rtc # 0 => \A a \in {"ActualLogicalReads", "ActualRows", "ActualExecutions"} :
                          CanInt(doc[rtc], a)
        /\ \A k \in 1..Len(groups) : CanFloat(doc[groups[k]], "Impact")
        /\ \A k \in 1..Len(ops) : NodeConverts(doc, ops[k])

\* statement_info (001) and statement_data (003); the statement text and its
\* preview are not modelled
StatementInfo(p, doc, stmt) ==
    LET el == doc[stmt]
        statement_id == Get(el, "StatementId")
        qts == QueryTimeStats(doc, stmt)
        cpu_time == IF qts # 0 THEN GetInt(doc[qts], "CpuTime", 0) ELSE 0
        elapsed_time == IF qts # 0 THEN GetInt(doc[qts], "ElapsedTime", 0) ELSE 0
        rtc == RuntimeCounters(p, doc, stmt)
        rt(a) == IF rtc # 0 THEN GetInt(doc[rtc], a, 0) ELSE 0
        common ==
            [statement_id |-> statement_id,
             statement_type |-> Get(el, "StatementType"),
             estimated_cost |-> GetFloat(el, "StatementSubTreeCost", 0),
             estimated_rows |-> GetFloat(el, "StatementEstRows", 0),
             optimizer_level |-> Get(el, "StatementOptmLevel"),
             early_abort_reason |-> Get(el, "StatementOptmEarlyAbortReason"),
             cpu_time_ms |-> cpu_time,
             elapsed_time_ms |-> elapsed_time,
             wait_time_ms |-> IF p = "001" THEN WaitTime001(elapsed_time, cpu_time)
                              ELSE WaitTime003(elapsed_time, cpu_time),
             logical_reads |-> rt("ActualLogicalReads"),
             actual_rows |-> rt("ActualRows"),
             actual_executions |-> rt("ActualExecutions"),
             missing_indexes |-> MissingIndexes(doc, stmt),
             node_details |-> NodeDetails(doc, stmt, statement_id)]
    IN  IF p = "001" THEN common
        ELSE common @@ [operators |-> Operators(doc, stmt)]

\* InitialSummary taken from the previous parse when there was one: a
\* summary dictionary shared between calls
InitialSummary_Shared ==
    IF "summary" \in DOMAIN plan1 THEN plan1.summary
    ELSE [total_estimated_cost |-> PyFloat(0),
          total_elapsed_time_ms |-> 0,
          total_cpu_time_ms |-> 0,
          total_logical_reads |-> 0,
          total_statements |-> 0,
          optimizer_timeouts |-> 0,
          missing_indexes |-> <<>>,
          total_warnings |-> 0]

\* result['summary'] as created
InitialSummary ==
    [total_estimated_cost |-> PyFloat(0),
     total_elapsed_time_ms |-> 0,
     total_cpu_time_ms |-> 0,
     total_logical_reads |-> 0,
     total_statements |-> 0,
     optimizer_timeouts |-> 0,
     missing_indexes |-> <<>>,
     total_warnings |-> 0]

\* UpdateSummary without the += of total_logical_reads
UpdateSummary_SkipsReads(summary, st) ==
    [summary EXCEPT
        !.total_estimated_cost = @ + st.estimated_cost,
        !.total_elapsed_time_ms = @ + st.elapsed_time_ms,
        !.total_cpu_time_ms = @ + st.cpu_time_ms,
        !.total_statements = @ + 1]

\* "Update summary": the five += of one statement
UpdateSummary(summary, st) ==
    [summary EXCEPT
        !.total_estimated_cost = @ + st.estimated_cost,
        !.total_elapsed_time_ms = @ + st.elapsed_time_ms,
        !.total_cpu_time_ms = @ + st.cpu_time_ms,
        !.total_logical_reads = @ + st.logical_reads,
        !.total_statements = @ + 1]

\* CountTimeout that also counts the reason written 'timeout'
CountTimeout_IgnoresCase(summary, st) ==
    IF st.early_abort_reason \in {"TimeOut", "timeout"}
    THEN [summary EXCEPT !.optimizer_timeouts = @ + 1] ELSE summary

\* if early_abort_reason == 'TimeOut': optimizer_timeouts += 1
CountTimeout(summary, st) ==
    IF st.early_abort_reason = "TimeOut"
    THEN [summary EXCEPT !.optimizer_timeouts = @ + 1] ELSE summary

\* summary.missing_indexes after one statement: extended (001) or
\* extended without duplicates (003)
CollectMissingIndexes(p, summary, st) ==
    [summary EXCEPT !.missing_indexes =
        IF p = "001" THEN AddAll(@, st.missing_indexes)
        ELSE AddDeduplicated(@, st.missing_indexes)]

\* TotalWaitTime clamped at zero
TotalWaitTime_Clamped(summary) ==
    IF summary.total_elapsed_time_ms > summary.total_cpu_time_ms
    THEN summary.total_elapsed_time_ms - summary.total_cpu_time_ms ELSE 0

\* "Calculate total wait time"
TotalWaitTime(summary) == summary.total_elapsed_time_ms - summary.total_cpu_time_ms

\* the result after the statement loop: total_wait_time_ms and total_warnings
Finished(res) ==
    [res EXCEPT !.summary =
        [total_wait_time_ms |-> TotalWaitTime(res.summary)] @@
        [res.summary EXCEPT !.total_warnings = Len(res.warnings)]]

\* the result after one iteration of the statement loop
AfterStatement(p, doc, stmt, res) ==
    LET st == StatementInfo(p, doc, stmt)
    IN  [res EXCEPT
            !.statements = Append(@, st),
            !.warnings = @ \o StatementWarnings(doc, stmt, st.statement_id),
            !.summary = CollectMissingIndexes(p,
                            CountTimeout(UpdateSummary(@, st), st), st)]

-----------------------------------------------------------------------------
(* parse_execution_plan as a state machine *)

NoResult == [none |-> TRUE]

NoPlan == [none |-> TRUE]

\* ET.parse(file_path) and the creation of result
Begin ==
    /\ pc = "start"
    /\ IF input.kind = "xml"
       THEN /\ pc' = "loop"
            /\ stmts' = FindAll(input.doc, 1, "StmtSimple")
            /\ idx' = 1
            /\ result' = [plan_name |-> input.name,
                          statements |-> <<>>,
                          warnings |-> <<>>,
                          summary |-> InitialSummary]
       ELSE /\ pc' = "raised"
            /\ UNCHANGED <<stmts, idx, result>>
    /\ UNCHANGED <<parser, input>>
    /\ UNCHANGED cmpVars
    /\ UNCHANGED others

\* one iteration of "for stmt in statements"; a ValueError of float() or int()
\* leaves the function, and the result built so far is lost
ParseStatement ==
    /\ pc = "loop"
    /\ idx <= Len(stmts)
    /\ IF StatementConverts(parser, input.doc, stmts[idx])
       THEN /\ result' = AfterStatement(parser, input.doc, stmts[idx], result)
            /\ idx' = idx + 1
            /\ pc' = pc
       ELSE /\ pc' = "raised"
            /\ result' = NoResult
            /\ idx' = idx
    /\ UNCHANGED <<parser, input, stmts>>
    /\ UNCHANGED cmpVars
    /\ UNCHANGED others

\* the end of the loop: the totals, and return result
Return ==
    /\ pc = "loop"
    /\ idx > Len(stmts)
    /\ result' = Finished(result)
    /\ pc' = "returned"
    /\ UNCHANGED <<parser, input, stmts, idx>>
    /\ UNCHANGED cmpVars
    /\ UNCHANGED others

\* the caller keeps the value returned and calls parse_execution_plan again
\* on the same file, in the same process
ParseAgain ==
    /\ pc = "returned"
    /\ plan1 = NoPlan
    /\ plan1' = result
    /\ pc' = "start"
    /\ stmts' = <<>>
    /\ idx' = 1
    /\ result' = NoResult
    /\ UNCHANGED <<parser, input, plan2, cmp12, cmp21>>
    /\ UNCHANGED others

-----------------------------------------------------------------------------
(* Input documents *)

\* the largest number of statements of a modelled document
MaxStmts == 2

StmtAttrs(id, cost) ==
    [StatementId |-> id, StatementType |-> "SELECT", StatementSubTreeCost |-> cost,
     StatementOptmLevel |-> "FULL", StatementEstRows |-> "1"]

RelOpAttrs(logical, cost) ==
    [LogicalOp |-> logical, PhysicalOp |-> logical, EstimatedTotalSubtreeCost |-> cost,
     EstimateRows |-> "1", EstimateCPU |-> "0.5", EstimateIO |-> "0.5",
     EstimateExecutions |-> "2", Parallel |-> "0"]

Counters(thread, reads, rows, executions) ==
    [Thread |-> thread, ActualLogicalReads |-> reads, ActualRows |-> rows,
     ActualExecutions |-> executions, ActualRebinds |-> "1", ActualRewinds |-> "0"]

ObjectAttrs(table) == [Database |-> "db", Schema |-> "dbo", Table |-> table]

\* Statement subtrees, each a sequence of elements whose parent is an index
\* into the subtree (0: the Statements container of the document).
StatementFragments ==
    { \* a statement with timing, one operator and its thread-0 counters
      << Elem("StmtSimple", 0, StmtAttrs("1", "1")),
         Elem("QueryTimeStats", 1, [CpuTime |-> "1", ElapsedTime |-> "2"]),
         Elem("RelOp", 1, RelOpAttrs("Sort", "1")),
         Elem("RunTimeInformation", 3, NoAttrs),
         Elem("RunTimeCountersPerThread", 4, Counters("0", "2", "1", "1")) >>,
      \* more CPU than elapsed time, optimizer timeout
      << Elem("StmtSimple", 0,
              StmtAttrs("2", "1.5") @@ [StatementOptmEarlyAbortReason |-> "TimeOut"]),
         Elem("QueryTimeStats", 1, [CpuTime |-> "3", ElapsedTime |-> "1"]) >>,
      \* a statement element without attributes or children
      << Elem("StmtSimple", 0, NoAttrs) >>,
      \* timing and counter elements without their attributes
      << Elem("StmtSimple", 0, StmtAttrs("3", "0.5")),
         Elem("QueryTimeStats", 1, NoAttrs),
         Elem("RunTimeCountersPerThread", 1, [Thread |-> "0"]) >>,
      \* a cost that float() rejects
      << Elem("StmtSimple", 0, StmtAttrs("4", "abc")) >>,
      \* a CPU time that int() rejects
      << Elem("StmtSimple", 0, StmtAttrs("5", "1")),
         Elem("QueryTimeStats", 1, [CpuTime |-> "1.5", ElapsedTime |-> "2"]) >>,
      \* counters of thread 1 before those of thread 0
      << Elem("StmtSimple", 0, StmtAttrs("6", "2")),
         Elem("RelOp", 1, RelOpAttrs("Sort", "2")),
         Elem("RunTimeInformation", 2, NoAttrs),
         Elem("RunTimeCountersPerThread", 3, Counters("1", "5", "3", "2")),
         Elem("RunTimeCountersPerThread", 3, Counters("0", "2", "1", "1")) >>,
      \* counters of thread 1 only
      << Elem("StmtSimple", 0, StmtAttrs("7", "1")),
         Elem("QueryTimeStats", 1, [CpuTime |-> "0", ElapsedTime |-> "3"]),
         Elem("RelOp", 1, RelOpAttrs("Sort", "1")),
         Elem("RunTimeInformation", 3, NoAttrs),
         Elem("RunTimeCountersPerThread", 4, Counters("1", "5", "3", "2")) >>,
      \* the early-abort reason written in lower case
      << Elem("StmtSimple", 0,
              StmtAttrs("8", "1") @@ [StatementOptmEarlyAbortReason |-> "timeout"]) >>,
      \* another early-abort reason
      << Elem("StmtSimple", 0,
              StmtAttrs("9", "1")
                @@ [StatementOptmEarlyAbortReason |-> "GoodEnoughPlanFound"]),
         Elem("QueryTimeStats", 1, [CpuTime |-> "1", ElapsedTime |-> "1"]) >> }

\* column names of the modelled output lists
OutputColumnNames ==
    << "c1", "c2", "c3", "c4", "c5", "c6", "c7", "c8", "c9", "c10", "c11", "c12" >>

\* an OutputList at index at below the RelOp at index op, with the first n
\* column names and then unnamed ColumnReference elements
OutputColumns(op, at, n, unnamed) ==
    << Elem("OutputList", op, NoAttrs) >>
    \o [k \in 1..n |-> Elem("ColumnReference", at, [Column |-> OutputColumnNames[k]])]
    \o [k \in 1..unnamed |-> Elem("ColumnReference", at, [Table |-> "T1"])]

\* Operator subtrees below one statement.
OperatorFragments ==
    { \* an index seek
      << Elem("StmtSimple", 0, StmtAttrs("1", "1")),
         Elem("RelOp", 1, RelOpAttrs("Index Seek", "1")),
         Elem("IndexScan", 2, NoAttrs),
         Elem("Object", 3, ObjectAttrs("T1") @@ [Index |-> "I1"]) >>,
      \* a table scan
      << Elem("StmtSimple", 0, StmtAttrs("1", "1")),
         Elem("RelOp", 1, RelOpAttrs("Table Scan", "1")),
         Elem("TableScan", 2, NoAttrs),
         Elem("Object", 3, ObjectAttrs("T2")) >>,
      \* a join of an index seek and a table scan
      << Elem("StmtSimple", 0, StmtAttrs("1", "2")),
         Elem("RelOp", 1, RelOpAttrs("Inner Join", "2")),
         Elem("NestedLoops", 2, NoAttrs),
         Elem("RelOp", 3, RelOpAttrs("Index Seek", "1")),
         Elem("IndexScan", 4, NoAttrs),
         Elem("Object", 5, ObjectAttrs("T1") @@ [Index |-> "I1"]),
         Elem("RelOp", 3, RelOpAttrs("Table Scan", "1")),
         Elem("TableScan", 7, NoAttrs),
         Elem("Object", 8, ObjectAttrs("T2")) >>,
      \* an update of a table read by an index seek
      << Elem("StmtSimple", 0, StmtAttrs("1", "2")),
         Elem("RelOp", 1, RelOpAttrs("Update", "2")),
         Elem("Update", 2, NoAttrs),
         Elem("Object", 3, ObjectAttrs("T3")),
         Elem("RelOp", 3, RelOpAttrs("Index Seek", "1")),
         Elem("IndexScan", 5, NoAttrs),
         Elem("Object", 6, [Schema |-> "dbo", Table |-> "T1"]) >>,
      \* an Insert element without Object before a Delete element with one
      << Elem("StmtSimple", 0, StmtAttrs("1", "1")),
         Elem("RelOp", 1, RelOpAttrs("Insert", "1")),
         Elem("Insert", 2, NoAttrs),
         Elem("Delete", 2, NoAttrs),
         Elem("Object", 4, ObjectAttrs("T3")) >>,
      \* an update through a clustered index: the Object names the index
      << Elem("StmtSimple", 0, StmtAttrs("1", "1")),
         Elem("RelOp", 1, RelOpAttrs("Update", "1")),
         Elem("Update", 2, NoAttrs),
         Elem("Object", 3, ObjectAttrs("T3") @@ [Index |-> "PK"]) >>,
      \* an operator without attributes
      << Elem("StmtSimple", 0, StmtAttrs("1", "1")),
         Elem("RelOp", 1, NoAttrs),
         Elem("RunTimeInformation", 2, NoAttrs),
         Elem("RunTimeCountersPerThread", 3, NoAttrs) >>,
      \* an operator whose row estimate float() rejects
      << Elem("StmtSimple", 0, StmtAttrs("1", "1")),
         Elem("RelOp", 1, [LogicalOp |-> "Sort", EstimateRows |-> "abc"]) >>,
      \* a compute scalar without runtime information over an index scan
      \* with the counters of its thread 0
      << Elem("StmtSimple", 0, StmtAttrs("1", "1")),
         Elem("RelOp", 1, RelOpAttrs("Compute Scalar", "1")),
         Elem("ComputeScalar", 2, NoAttrs),
         Elem("RelOp", 3, RelOpAttrs("Index Scan", "1")),
         Elem("RunTimeInformation", 4, NoAttrs),
         Elem("RunTimeCountersPerThread", 5, Counters("0", "2", "3", "1")) >>,
      \* an output list of exactly ten columns
      << Elem("StmtSimple", 0, StmtAttrs("1", "1")),
         Elem("RelOp", 1, RelOpAttrs("Sort", "1")) >>
         \o OutputColumns(2, 3, 10, 0),
      \* an output list of eleven named columns
      << Elem("StmtSimple", 0, StmtAttrs("1", "1")),
         Elem("RelOp", 1, RelOpAttrs("Sort", "1")) >>
         \o OutputColumns(2, 3, 11, 0),
      \* ten named columns and two references without a column name
      << Elem("StmtSimple", 0, StmtAttrs("1", "1")),
         Elem("RelOp", 1, RelOpAttrs("Sort", "1")) >>
         \o OutputColumns(2, 3, 10, 2),
      \* twelve columns above an operator with two columns
      << Elem("StmtSimple", 0, StmtAttrs("1", "2")),
         Elem("RelOp", 1, RelOpAttrs("Top", "2")) >>
         \o OutputColumns(2, 3, 12, 0)
         \o << Elem("Top", 2, NoAttrs),
                Elem("RelOp", 16, RelOpAttrs("Sort", "1")) >>
         \o OutputColumns(17, 18, 2, 0),
      \* a missing-index hint, one column without a name
      << Elem("StmtSimple", 0, StmtAttrs("1", "1")),
         Elem("MissingIndexGroup", 1, NoAttrs),
         Elem("MissingIndex", 2, [Table |-> "T1"]),
         Elem("ColumnGroup", 3, [Usage |-> "EQUALITY"]),
         Elem("Column", 4, [Name |-> "a"]),
         Elem("Column", 4, NoAttrs) >> }

\* a missing-index hint: the MissingIndexGroup subtree below the statement at
\* index 1, its first element at index at, with one ColumnGroup
HintGroup(at, impact, table, usage, names) ==
    << Elem("MissingIndexGroup", 1, [Impact |-> impact]),
       Elem("MissingIndex", at, [Database |-> "db", Schema |-> "dbo", Table |-> table]),
       Elem("ColumnGroup", at + 1, [Usage |-> usage]) >>
    \o [k \in 1..Len(names) |-> Elem("Column", at + 2, [Name |-> names[k]])]

\* one more ColumnGroup of the MissingIndex at index mi, itself at index at
MoreColumns(mi, at, usage, names) ==
    << Elem("ColumnGroup", mi, [Usage |-> usage]) >>
    \o [k \in 1..Len(names) |-> Elem("Column", at, [Name |-> names[k]])]

\* Statement subtrees with warnings and missing-index hints.
AnnotationFragments ==
    { \* a statement warning, and two warnings of an operator, one with an
      \* attribute and one without
      << Elem("StmtSimple", 0, StmtAttrs("1", "1")),
         Elem("Warnings", 1, NoAttrs),
         Elem("SpillToTempDb", 2, [SpillLevel |-> "1", SpilledThreadCount |-> "2"]),
         Elem("RelOp", 1, RelOpAttrs("Sort", "1")),
         Elem("Warnings", 4, [NoJoinPredicate |-> "1"]),
         Elem("NoJoinPredicate", 5, NoAttrs),
         Elem("Wait", 5, [WaitType |-> "IO", WaitTime |-> "3"]) >>,
      \* a warning whose attributes are named type and statement_id
      << Elem("StmtSimple", 0, StmtAttrs("2", "1")),
         Elem("Warnings", 1, NoAttrs),
         Elem("PlanAffectingConvert", 2, [type |-> "x", statement_id |-> "9",
                                          Expression |-> "e"]) >>,
      \* the same hint twice in one statement, with different impacts
      << Elem("StmtSimple", 0, StmtAttrs("3", "1")) >>
         \o HintGroup(2, "5", "T1", "EQUALITY", <<"a">>)
         \o HintGroup(6, "3", "T1", "EQUALITY", <<"a">>),
      \* that hint again, and a hint on the same table with columns of the
      \* three usages
      << Elem("StmtSimple", 0, StmtAttrs("4", "1")) >>
         \o HintGroup(2, "2", "T1", "EQUALITY", <<"a">>)
         \o HintGroup(6, "1", "T1", "EQUALITY", <<"a", "b">>)
         \o MoreColumns(7, 11, "INEQUALITY", <<"c">>)
         \o MoreColumns(7, 13, "INCLUDE", <<"d", "e">>),
      \* a hint with two EQUALITY groups and a group of another usage
      << Elem("StmtSimple", 0, StmtAttrs("5", "1")) >>
         \o HintGroup(2, "1", "T2", "EQUALITY", <<"a">>)
         \o MoreColumns(3, 6, "EQUALITY", <<"b">>)
         \o MoreColumns(3, 8, "OTHER", <<"f">>),
      \* a MissingIndexGroup without a MissingIndex
      << Elem("StmtSimple", 0, StmtAttrs("6", "1")),
         Elem("MissingIndexGroup", 1, [Impact |-> "5"]) >> }

\* Statement subtrees in which a statement holds another statement.
NestedFragments ==
    { \* a statement with one operator and one warning
      << Elem("StmtSimple", 0, StmtAttrs("1", "1")),
         Elem("RelOp", 1, RelOpAttrs("Sort", "1")),
         Elem("Warnings", 2, NoAttrs),
         Elem("NoJoinPredicate", 3, NoAttrs) >>,
      \* a statement whose operator holds the statement of a function body,
      \* with an operator and a warning of its own
      << Elem("StmtSimple", 0, StmtAttrs("2", "2")),
         Elem("Warnings", 1, NoAttrs),
         Elem("SpillToTempDb", 2, [SpillLevel |-> "1"]),
         Elem("RelOp", 1, RelOpAttrs("Compute Scalar", "2")),
         Elem("UDF", 4, NoAttrs),
         Elem("StmtSimple", 5, StmtAttrs("3", "1")),
         Elem("RelOp", 6, RelOpAttrs("Table Scan", "1")),
         Elem("Warnings", 7, NoAttrs),
         Elem("NoJoinPredicate", 8, NoAttrs) >>,
      \* a statement that holds a statement of a stored procedure, without
      \* operators or warnings
      << Elem("StmtSimple", 0, StmtAttrs("4", "1")),
         Elem("StoredProc", 1, NoAttrs),
         Elem("StmtSimple", 2, StmtAttrs("5", "1")) >>,
      \* a statement without children
      << Elem("StmtSimple", 0, StmtAttrs("6", "1")) >> }

\* a subtree placed below `container`, its first element at index off + 1
Attach(frag, off, container) ==
    [k \in 1..Len(frag) |->
        [frag[k] EXCEPT !.parent = IF @ = 0 THEN container ELSE @ + off]]

RECURSIVE Concat(_, _)
Concat(doc, frags) ==
    IF frags = <<>> THEN doc
    ELSE Concat(doc \o Attach(Head(frags), Len(doc), 2), Tail(frags))

\* the document whose statements are the given subtrees, in order
Document(frags) ==
    Concat(<< Elem("ShowPlanXML", 0, [Version |-> "1.5"]),
              Elem("Statements", 1, NoAttrs) >>, frags)

Documents(F) ==
    { Document(fs) : fs \in UNION { [1..n -> F] : n \in 0..MaxStmts } }

\* the files handed to the parser: a document, a file that is not well-formed
\* XML, a path with no file
Inputs(F) ==
    { [kind |-> "xml", name |-> "plan", doc |-> d] : d \in Documents(F) }
    \cup { [kind |-> k, name |-> "plan", doc |-> <<>>] : k \in {"malformed", "missing"} }

ParseInit(F) ==
    /\ parser \in {"001", "003"}
    /\ input \in Inputs(F)
    /\ pc = "start"
    /\ stmts = <<>>
    /\ idx = 1
    /\ result = NoResult
    /\ plan1 = NoPlan
    /\ plan2 = NoPlan
    /\ cmp12 = NoResult
    /\ cmp21 = NoResult
    /\ job = Idle
    /\ pipe = Idle
    /\ uq = Idle
    /\ se = Idle
    /\ etl = Idle

Init == ParseInit(StatementFragments)

InitNodes == ParseInit(OperatorFragments)

InitAnnotations == ParseInit(AnnotationFragments)

InitNested == ParseInit(NestedFragments)

Next == Begin \/ ParseStatement \/ Return

\* parsing documents that vary in their statements
Spec == Init /\ [][Next]_vars

\* parsing documents that vary in their operators
SpecNodes == InitNodes /\ [][Next]_vars

NextTwice == Begin \/ ParseStatement \/ Return \/ ParseAgain

\* parsing every document twice in one process
SpecTwice == Init /\ [][NextTwice]_vars

\* parsing documents that vary in their warnings and missing-index hints
SpecAnnotations == InitAnnotations /\ [][Next]_vars

\* parsing documents with statements inside statements
SpecNested == InitNested /\ [][Next]_vars

-----------------------------------------------------------------------------
(* compare_plans *)

\* plan.get('config_name', plan['plan_name'])
DisplayName(plan) ==
    IF "config_name" \in DOMAIN plan THEN plan.config_name ELSE plan.plan_name

\* the metrics list: every entry is compared with 'lower'
Metrics ==
    << "total_estimated_cost", "total_elapsed_time_ms", "total_cpu_time_ms",
       "total_logical_reads", "total_statements", "optimizer_timeouts",
       "total_wait_time_ms" >>

Better(metric) == "lower"

\* MetricWinner that gives equal values to the first plan
MetricWinner_FirstOnEqual(val1, val2, better, plan1_name, plan2_name) ==
    IF val1 <= val2 THEN plan1_name ELSE plan2_name

\* winner of one metric
MetricWinner(val1, val2, better, plan1_name, plan2_name) ==
    IF val1 = val2 THEN "tie"
    ELSE IF better = "lower" THEN (IF val1 < val2 THEN plan1_name ELSE plan2_name)
    ELSE (IF val1 > val2 THEN plan1_name ELSE plan2_name)

\* n / d rounded to the nearest integer, halves to the even one (d # 0)
RoundDiv(n, d) ==
    LET nn == IF d < 0 THEN -n ELSE n
        dd == IF d < 0 THEN -d ELSE d
        q == nn \div dd
        r == nn - q * dd
    IN  IF 2 * r < dd THEN q
        ELSE IF 2 * r > dd THEN q + 1
        ELSE IF q % 2 = 0 THEN q ELSE q + 1

\* PercentDifference that keeps the sign of val1 over a zero val2
PercentDifference_SignedBase(val1, val2) ==
    IF val2 # 0 THEN RoundDiv((val1 - val2) * 10000, val2)
    ELSE IF val1 = 0 THEN 0 ELSE IF val1 > 0 THEN 10000 ELSE -10000

\* round(pct_diff, 2), in hundredths of a percent
PercentDifference(val1, val2) ==
    IF val2 # 0 THEN RoundDiv((val1 - val2) * 10000, val2)
    ELSE IF val1 = 0 THEN 0 ELSE 10000

\* comparison['metrics'][metric]: a dictionary display whose later keys
\* replace equal earlier ones
MetricEntry(val1, val2, better, plan1_name, plan2_name) ==
    ("percent_difference" :> PercentDifference(val1, val2)) @@
    ("winner" :> MetricWinner(val1, val2, better, plan1_name, plan2_name)) @@
    (plan2_name :> val2) @@
    (plan1_name :> val1)

\* Wins that counts a tied metric for the first plan
Wins_TiesToFirst(p1, p2) ==
    LET first == {k \in 1..Len(Metrics) :
                     p1.summary[Metrics[k]] <= p2.summary[Metrics[k]]}
    IN  <<Cardinality(first), Len(Metrics) - Cardinality(first)>>

\* plan1_wins and plan2_wins after the metrics loop: the if / elif on the
\* winner of each metric
Wins(p1, p2) ==
    LET plan1_name == DisplayName(p1)
        plan2_name == DisplayName(p2)
        w(k) == MetricWinner(p1.summary[Metrics[k]], p2.summary[Metrics[k]],
                             Better(Metrics[k]), plan1_name, plan2_name)
        first == {k \in 1..Len(Metrics) : w(k) = plan1_name}
        second == {k \in 1..Len(Metrics) : w(k) # plan1_name /\ w(k) = plan2_name}
    IN  <<Cardinality(first), Cardinality(second)>>

\* OverallWinner that gives equal win counts to the first plan
OverallWinner_FirstOnEqual(plan1_wins, plan2_wins, plan1_name, plan2_name) ==
    IF plan1_wins >= plan2_wins THEN plan1_name ELSE plan2_name

\* "Determine overall winner"
OverallWinner(plan1_wins, plan2_wins, plan1_name, plan2_name) ==
    IF plan1_wins > plan2_wins THEN plan1_name
    ELSE IF plan2_wins > plan1_wins THEN plan2_name
    ELSE "tie"

\* WinnerReasons without the test data['winner'] != 'tie'
WinnerReasons_AllMatching(metrics, winner) ==
    LET chosen == SelectSeq(Metrics, LAMBDA m : metrics[m]["winner"] = winner)
        abs(x) == IF x < 0 THEN -x ELSE x
    IN  [k \in 1..Len(chosen) |->
            [metric |-> chosen[k],
             winner |-> metrics[chosen[k]]["winner"],
             percent |-> abs(metrics[chosen[k]]["percent_difference"])]]

\* winner_reasons: one entry per metric, in the order of the metrics, whose
\* recorded winner is not 'tie' and is the overall winner; an entry holds the
\* parts of the formatted string
WinnerReasons(metrics, winner) ==
    LET chosen == SelectSeq(Metrics, LAMBDA m : metrics[m]["winner"] # "tie"
                                                /\ metrics[m]["winner"] = winner)
        abs(x) == IF x < 0 THEN -x ELSE x
    IN  [k \in 1..Len(chosen) |->
            [metric |-> chosen[k],
             winner |-> metrics[chosen[k]]["winner"],
             percent |-> abs(metrics[chosen[k]]["percent_difference"])]]

compare_plans(p1, p2) ==
    LET plan1_name == DisplayName(p1)
        plan2_name == DisplayName(p2)
        metrics == [m \in {Metrics[k] : k \in 1..Len(Metrics)} |->
                       MetricEntry(p1.summary[m], p2.summary[m], Better(m),
                                   plan1_name, plan2_name)]
        wins == Wins(p1, p2)
        winner == OverallWinner(wins[1], wins[2], plan1_name, plan2_name)
    IN  [plan1_name |-> plan1_name,
         plan2_name |-> plan2_name,
         metrics |-> metrics,
         winner |-> winner,
         winner_reasons |-> WinnerReasons(metrics, winner)]

\* the largest value of a summary metric of a compared plan
MaxMetric == 2

\* the summary of a parsed plan: the wait time is the difference of the
\* elapsed and the CPU time
Summary(cost, elapsed, cpu, reads, statements, timeouts) ==
    [total_estimated_cost |-> cost,
     total_elapsed_time_ms |-> elapsed,
     total_cpu_time_ms |-> cpu,
     total_logical_reads |-> reads,
     total_statements |-> statements,
     optimizer_timeouts |-> timeouts,
     total_wait_time_ms |-> elapsed - cpu]

\* summaries of the first plan: no more optimizer timeouts than statements,
\* and every total 0 when the plan has no statement
Summaries ==
    { s \in { Summary(c, e, u, r, n, t) :
                c \in 0..MaxMetric, e \in 0..MaxMetric, u \in 0..MaxMetric,
                r \in 0..MaxMetric, n \in 0..MaxMetric, t \in 0..MaxMetric } :
        /\ s.optimizer_timeouts <= s.total_statements
        /\ s.total_statements = 0 => s = Summary(0, 0, 0, 0, 0, 0) }

\* summaries of the second plan
Baselines ==
    { Summary(0, 0, 0, 0, 0, 0), Summary(1, 1, 1, 1, 1, 1), Summary(1, 1, 1, 1, 2, 0),
      Summary(3, 3, 3, 3, 3, 1) }

\* display names given in the plan configuration
Names == {"A", "B", "tie"}

\* a parsed plan as main hands it to compare_plans
Plan(file, name, summary) ==
    [plan_name |-> file, config_name |-> name, summary |-> summary]

CompareInit ==
    /\ plan1 \in { Plan("plan1", n, s) : n \in Names, s \in Summaries }
    /\ plan2 \in { Plan("plan2", n, s) : n \in Names, s \in Baselines }
    /\ cmp12 = NoResult
    /\ cmp21 = NoResult
    /\ parser = "001"
    /\ input = [kind |-> "missing", name |-> "plan", doc |-> <<>>]
    /\ pc = "idle"
    /\ stmts = <<>>
    /\ idx = 1
    /\ result = NoResult
    /\ job = Idle
    /\ pipe = Idle
    /\ uq = Idle
    /\ se = Idle
    /\ etl = Idle

\* CompareForward that stores the comparison in its first argument
CompareForward_KeepsComparison ==
    /\ cmp12 = NoResult
    /\ plan1 # NoPlan
    /\ cmp12' = compare_plans(plan1, plan2)
    /\ plan1' = [comparison |-> cmp12'] @@ plan1
    /\ UNCHANGED <<plan2, cmp21>>
    /\ UNCHANGED parseVars
    /\ UNCHANGED others

\* comparison = compare_plans(plan1, plan2)
CompareForward ==
    /\ cmp12 = NoResult
    /\ plan1 # NoPlan
    /\ cmp12' = compare_plans(plan1, plan2)
    /\ UNCHANGED <<plan1, plan2, cmp21>>
    /\ UNCHANGED parseVars
    /\ UNCHANGED others

\* the same two plans in the other order: compare_plans(plan2, plan1)
CompareReverse ==
    /\ cmp21 = NoResult
    /\ plan1 # NoPlan
    /\ cmp21' = compare_plans(plan2, plan1)
    /\ UNCHANGED <<plan1, plan2, cmp12>>
    /\ UNCHANGED parseVars
    /\ UNCHANGED others

NextCompare == CompareForward \/ CompareReverse

\* comparing two parsed plans
SpecCompare == CompareInit /\ [][NextCompare]_vars

RECURSIVE ParseLoop(_, _, _, _)
\* the statement loop of parse_execution_plan over statements that all convert
ParseLoop(p, doc, ss, res) ==
    IF ss = <<>> THEN res
    ELSE ParseLoop(p, doc, Tail(ss), AfterStatement(p, doc, Head(ss), res))

\* the value parse_execution_plan returns for a file that holds a document
\* whose statements all convert
ParsedPlan(p, file) ==
    Finished(ParseLoop(p, file.doc, FindAll(file.doc, 1, "StmtSimple"),
                       [plan_name |-> file.name,
                        statements |-> <<>>,
                        warnings |-> <<>>,
                        summary |-> InitialSummary]))

\* statement subtrees of the first compared plan: timing and counters,
\* warnings, missing-index hints
FirstPlanFragments ==
    { f \in StatementFragments : Get(f[1], "StatementId") = "1" }
    \cup { f \in AnnotationFragments : Get(f[1], "StatementId") \in {"1", "3"} }

\* statement subtrees of the second compared plan
SecondPlanFragments ==
    { f \in StatementFragments : Get(f[1], "StatementId") = "2" }

\* the plans parsed from documents of the given statement subtrees, with the
\* display name main gives them or without one
ParsedPlans(file, F) ==
    LET parsed == { ParsedPlan("001", [kind |-> "xml", name |-> file, doc |-> d]) :
                        d \in Documents(F) }
    IN  parsed \cup { [config_name |-> n] @@ pl : n \in {"A", "B"}, pl \in parsed }

FrameInit ==
    /\ plan1 \in ParsedPlans("plan1", FirstPlanFragments)
    /\ plan2 \in ParsedPlans("plan2", SecondPlanFragments)
    /\ cmp12 = NoResult
    /\ cmp21 = NoResult
    /\ parser = "001"
    /\ input = [kind |-> "missing", name |-> "plan", doc |-> <<>>]
    /\ pc = "idle"
    /\ stmts = <<>>
    /\ idx = 1
    /\ result = NoResult
    /\ job = Idle
    /\ pipe = Idle
    /\ uq = Idle
    /\ se = Idle
    /\ etl = Idle

\* compare_plans(plan1, plan2) called again on the same two plans
CompareRepeat ==
    /\ cmp12 # NoResult
    /\ cmp12' = compare_plans(plan1, plan2)
    /\ UNCHANGED <<plan1, plan2, cmp21>>
    /\ UNCHANGED parseVars
    /\ UNCHANGED others

NextFrame == CompareForward \/ CompareReverse \/ CompareRepeat

\* comparing, more than once, two plans as the parser returns them
SpecFrame == FrameInit /\ [][NextFrame]_vars

\* display names that are also keys or values of a metric record
ReservedNames == {"A", "B", "tie", "winner", "percent_difference"}

NamesInit ==
    /\ plan1 \in { Plan("plan1", n, s) : n \in ReservedNames, s \in Baselines }
    /\ plan2 \in { Plan("plan2", n, s) : n \in ReservedNames, s \in Baselines }
    /\ cmp12 = NoResult
    /\ cmp21 = NoResult
    /\ parser = "001"
    /\ input = [kind |-> "missing", name |-> "plan", doc |-> <<>>]
    /\ pc = "idle"
    /\ stmts = <<>>
    /\ idx = 1
    /\ result = NoResult
    /\ job = Idle
    /\ pipe = Idle
    /\ uq = Idle
    /\ se = Idle
    /\ etl = Idle

\* comparing two plans whose display names are equal or reserved words
SpecNames == NamesInit /\ [][NextCompare]_vars

-----------------------------------------------------------------------------
(* main of the two-plan tool *)

\* the largest number of entries of a modelled plan configuration
MaxPlans == 3

\* Path(path).exists()
Exists(file) == file.kind # "missing"

\* the plan files on disk: one that is absent, a plan of one statement, a
\* plan of two statements, and a plan whose second statement has a cost
\* float() rejects
PlanFilesOnDisk ==
    LET frag(F, id) == CHOOSE f \in F : Get(f[1], "StatementId") = id
        timed == frag(StatementFragments, "1")
        timeout == frag(StatementFragments, "2")
        hinted == frag(AnnotationFragments, "3")
        badcost == frag(StatementFragments, "4")
    IN  { [kind |-> "missing", name |-> "gone", doc |-> <<>>],
          [kind |-> "xml", name |-> "p", doc |-> Document(<<timed>>)],
          [kind |-> "xml", name |-> "q", doc |-> Document(<<timeout, hinted>>)],
          [kind |-> "xml", name |-> "r", doc |-> Document(<<timed, badcost>>)] }

\* the names of the configured plans, by position
PlanNames == << "first", "second", "third", "fourth", "fifth" >>

\* what load_plan_config returns: a dictionary with the list planFiles, or
\* a dictionary of the old format without it
PlanConfigs ==
    { [other |-> TRUE] }
    \cup UNION { { [planFiles |-> [k \in 1..n |->
                                     [name |-> PlanNames[k], path |-> fs[k],
                                      description |-> "", active |-> as[k]]]] :
                     fs \in [1..n -> PlanFilesOnDisk], as \in [1..n -> BOOLEAN] } :
                 n \in 0..MaxPlans }

MainInit ==
    \* status -1: the process has not exited
    /\ job \in { [config |-> c, phase |-> "validate", status |-> -1,
                   parsed |-> <<>>, output |-> NoResult] : c \in PlanConfigs }
    /\ parser = "001"
    /\ input = [kind |-> "missing", name |-> "plan", doc |-> <<>>]
    /\ pc = "idle"
    /\ stmts = <<>>
    /\ idx = 1
    /\ result = NoResult
    /\ plan1 = NoPlan
    /\ plan2 = NoPlan
    /\ cmp12 = NoResult
    /\ cmp21 = NoResult
    /\ pipe = Idle
    /\ uq = Idle
    /\ se = Idle
    /\ etl = Idle

\* plan_files: the entries with a true 'active'
ActivePlans(config) == SelectSeq(config.planFiles, LAMBDA plan : plan.active)

\* the checks of main that end in sys.exit(1)
ConfigAccepted(config) ==
    /\ "planFiles" \in DOMAIN config
    /\ Len(config.planFiles) >= 2
    /\ Len(ActivePlans(config)) >= 2
    /\ Exists(ActivePlans(config)[1].path)
    /\ Exists(ActivePlans(config)[2].path)

\* MainValidate that takes the first two configured plans
MainValidate_FirstTwoConfigured ==
    /\ job # Idle
    /\ job.phase = "validate"
    /\ IF ConfigAccepted(job.config)
       THEN /\ job' = [job EXCEPT !.phase = "parse1",
                                  !.parsed = <<job.config.planFiles[1].path.name>>]
            /\ input' = job.config.planFiles[1].path
            /\ pc' = "start"
       ELSE /\ job' = [job EXCEPT !.phase = "exit", !.status = 1]
            /\ UNCHANGED <<input, pc>>
    /\ UNCHANGED <<parser, stmts, idx, result>>
    /\ UNCHANGED cmpVars
    /\ UNCHANGED <<pipe, uq, se, etl>>

\* main up to the first call of parse_execution_plan: the validation of the
\* configuration, the choice of the two plans, the tests of their paths
MainValidate ==
    /\ job # Idle
    /\ job.phase = "validate"
    /\ IF ConfigAccepted(job.config)
       THEN /\ job' = [job EXCEPT !.phase = "parse1",
                                  !.parsed = <<ActivePlans(job.config)[1].path.name>>]
            /\ input' = ActivePlans(job.config)[1].path
            /\ pc' = "start"
       ELSE /\ job' = [job EXCEPT !.phase = "exit", !.status = 1]
            /\ UNCHANGED <<input, pc>>
    /\ UNCHANGED <<parser, stmts, idx, result>>
    /\ UNCHANGED cmpVars
    /\ UNCHANGED <<pipe, uq, se, etl>>

\* the plan main keeps: the value returned with config_name and
\* config_description
Configured(plan, plan_config) ==
    [config_name |-> plan_config.name,
     config_description |-> plan_config.description] @@ plan

\* plan1 is kept and parse_execution_plan is called on the second path
MainKeepFirst ==
    /\ job # Idle
    /\ job.phase = "parse1"
    /\ pc = "returned"
    /\ plan1' = Configured(result, ActivePlans(job.config)[1])
    /\ job' = [job EXCEPT !.phase = "parse2",
                          !.parsed = Append(@, ActivePlans(job.config)[2].path.name)]
    /\ input' = ActivePlans(job.config)[2].path
    /\ pc' = "start"
    /\ stmts' = <<>>
    /\ idx' = 1
    /\ result' = NoResult
    /\ UNCHANGED <<parser, plan2, cmp12, cmp21>>
    /\ UNCHANGED <<pipe, uq, se, etl>>

\* plan2 is kept
MainKeepSecond ==
    /\ job # Idle
    /\ job.phase = "parse2"
    /\ pc = "returned"
    /\ plan2' = Configured(result, ActivePlans(job.config)[2])
    /\ job' = [job EXCEPT !.phase = "compare"]
    /\ pc' = "idle"
    /\ result' = NoResult
    /\ UNCHANGED <<parser, input, stmts, idx, plan1, cmp12, cmp21>>
    /\ UNCHANGED <<pipe, uq, se, etl>>

\* an exception of parse_execution_plan is not caught: the process ends with
\* a traceback and status 1
MainRaised ==
    /\ job # Idle
    /\ job.phase \in {"parse1", "parse2"}
    /\ pc = "raised"
    /\ job' = [job EXCEPT !.phase = "exit", !.status = 1]
    /\ pc' = "idle"
    /\ UNCHANGED <<parser, input, stmts, idx, result>>
    /\ UNCHANGED cmpVars
    /\ UNCHANGED <<pipe, uq, se, etl>>

\* comparison = compare_plans(plan1, plan2)
MainCompare ==
    /\ job # Idle
    /\ job.phase = "compare"
    /\ cmp12' = compare_plans(plan1, plan2)
    /\ job' = [job EXCEPT !.phase = "write"]
    /\ UNCHANGED <<plan1, plan2, cmp21>>
    /\ UNCHANGED parseVars
    /\ UNCHANGED <<pipe, uq, se, etl>>

\* the output dictionary is dumped to the JSON file, and main returns
MainWrite ==
    /\ job # Idle
    /\ job.phase = "write"
    /\ job' = [job EXCEPT !.phase = "done", !.status = 0,
                          !.output = [plan1 |-> plan1, plan2 |-> plan2,
                                      comparison |-> cmp12]]
    /\ UNCHANGED parseVars
    /\ UNCHANGED cmpVars
    /\ UNCHANGED <<pipe, uq, se, etl>>

NextMain ==
    \/ MainValidate
    \/ Begin
    \/ ParseStatement
    \/ Return
    \/ MainKeepFirst
    \/ MainKeepSecond
    \/ MainRaised
    \/ MainCompare
    \/ MainWrite

\* one run of the two-plan tool
SpecMain == MainInit /\ [][NextMain]_vars

-----------------------------------------------------------------------------
(* The three-step pipelines: run_report and run_complete_analysis *)

\* the largest exit code of a modelled subprocess
MaxExitCode == 2

\* what subprocess.run does for one step: it returns with an exit code, or it
\* raises
StepOutcomes ==
    { [raised |-> FALSE, returncode |-> c] : c \in 0..MaxExitCode }
    \cup { [raised |-> TRUE, returncode |-> 0] }

\* the value a step function returns: result.returncode == 0, and False
\* from the except clause
StepResult(outcome) == ~outcome.raised /\ outcome.returncode = 0

PipeInit ==
    /\ pipe \in { [tool |-> t, proceed |-> p, outcomes |-> o, at |-> "confirm",
                   step |-> 1, started |-> <<>>, returned |-> <<>>,
                   results |-> <<>>, all_success |-> FALSE] :
                    t \in {"BabelfishCompass", "JavaTracer"}, p \in BOOLEAN,
                    o \in [1..3 -> StepOutcomes] }
    /\ parser = "001"
    /\ input = [kind |-> "missing", name |-> "plan", doc |-> <<>>]
    /\ pc = "idle"
    /\ stmts = <<>>
    /\ idx = 1
    /\ result = NoResult
    /\ plan1 = NoPlan
    /\ plan2 = NoPlan
    /\ cmp12 = NoResult
    /\ cmp21 = NoResult
    /\ job = Idle
    /\ uq = Idle
    /\ se = Idle
    /\ etl = Idle

\* StepGate that runs every step
StepGate_Always(tool, results, k) == TRUE

\* the test before a step: none before step 1; run_report reads
\* results[k - 2][1], run_complete_analysis the variable of the step before
StepGate(tool, results, k) ==
    IF k = 1 THEN TRUE
    ELSE IF tool = "BabelfishCompass" THEN results[k - 1]
    ELSE results[k - 1]

\* all_success: all(...) in run_report, the loop over results in
\* run_complete_analysis
AllSuccess(tool, results) ==
    IF tool = "BabelfishCompass" THEN \A k \in 1..Len(results) : results[k]
    ELSE ~\E k \in 1..Len(results) : ~results[k]

\* the checks and the confirmation before the steps: the function returns
\* without running a step unless the user proceeds
PipeConfirm ==
    /\ pipe # Idle
    /\ pipe.at = "confirm"
    /\ pipe' = [pipe EXCEPT !.at = IF pipe.proceed THEN "gate" ELSE "returned"]
    /\ UNCHANGED <<parseVars, cmpVars, job, uq, se, etl>>

\* the if before a step: the subprocess of the step is started, or False is
\* recorded for the step
PipeGate ==
    /\ pipe # Idle
    /\ pipe.at = "gate"
    /\ IF StepGate(pipe.tool, pipe.results, pipe.step)
       THEN pipe' = [pipe EXCEPT !.at = "running",
                                 !.started = Append(@, pipe.step)]
       ELSE pipe' = [pipe EXCEPT !.results = Append(@, FALSE),
                                 !.at = IF pipe.step = 3 THEN "summary" ELSE "gate",
                                 !.step = IF pipe.step = 3 THEN 3 ELSE @ + 1]
    /\ UNCHANGED <<parseVars, cmpVars, job, uq, se, etl>>

\* subprocess.run returns or raises, and the result of the step is recorded
PipeStepEnds ==
    /\ pipe # Idle
    /\ pipe.at = "running"
    /\ pipe' = [pipe EXCEPT !.returned = Append(@, pipe.step),
                            !.results = Append(@, StepResult(pipe.outcomes[pipe.step])),
                            !.at = IF pipe.step = 3 THEN "summary" ELSE "gate",
                            !.step = IF pipe.step = 3 THEN 3 ELSE @ + 1]
    /\ UNCHANGED <<parseVars, cmpVars, job, uq, se, etl>>

\* the overall result is reported
PipeSummary ==
    /\ pipe # Idle
    /\ pipe.at = "summary"
    /\ pipe' = [pipe EXCEPT !.all_success = AllSuccess(pipe.tool, pipe.results),
                            !.at = "returned"]
    /\ UNCHANGED <<parseVars, cmpVars, job, uq, se, etl>>

NextPipe == PipeConfirm \/ PipeGate \/ PipeStepEnds \/ PipeSummary

\* one run of a three-step pipeline
SpecPipe == PipeInit /\ [][NextPipe]_vars

-----------------------------------------------------------------------------
(* _uniquify of the system-catalog ETL; a name is a sequence of characters *)

\* the largest number of column names of a modelled description
MaxCols == 3

\* str.lower() of one character
LowerChar(ch) == IF ch = "A" THEN "a" ELSE IF ch = "B" THEN "b" ELSE ch

\* name.lower()
Lower(name) == [k \in 1..Len(name) |-> LowerChar(name[k])]

\* the decimal digits of a counter below ten
DecimalDigits == << "1", "2", "3", "4", "5", "6", "7", "8", "9" >>

\* f"{c}_{i}"
Suffixed(c, i) == c \o << "_", DecimalDigits[i] >>

\* the condition of the while loop without lower()
InSeen_CaseSensitive(base, seen) == base \in seen

\* base.lower() in seen
InSeen(base, seen) == Lower(base) \in seen

\* column names of a cursor description
ColumnNamesOfDescription ==
    { << "a" >>, << "A" >>, << "b" >>, << "a", "_", "2" >>, << "A", "_", "2" >> }

UqInit ==
    /\ uq \in { [cols |-> cs, at |-> "for", pos |-> 1, base |-> <<>>, i |-> 1,
                 seen |-> {}, out |-> <<>>] :
                  cs \in UNION { [1..n -> ColumnNamesOfDescription] : n \in 0..MaxCols } }
    /\ parser = "001"
    /\ input = [kind |-> "missing", name |-> "plan", doc |-> <<>>]
    /\ pc = "idle"
    /\ stmts = <<>>
    /\ idx = 1
    /\ result = NoResult
    /\ plan1 = NoPlan
    /\ plan2 = NoPlan
    /\ cmp12 = NoResult
    /\ cmp21 = NoResult
    /\ job = Idle
    /\ pipe = Idle
    /\ se = Idle
    /\ etl = Idle

\* for c in cols: base = c, i = 1
UqTake ==
    /\ uq # Idle
    /\ uq.at = "for"
    /\ uq.pos <= Len(uq.cols)
    /\ uq' = [uq EXCEPT !.base = uq.cols[uq.pos], !.i = 1, !.at = "while"]
    /\ UNCHANGED <<parseVars, cmpVars, job, pipe, se, etl>>

\* one iteration of the while loop: i += 1, base = f"{c}_{i}"
UqSuffix ==
    /\ uq # Idle
    /\ uq.at = "while"
    /\ InSeen(uq.base, uq.seen)
    /\ uq' = [uq EXCEPT !.i = @ + 1,
                        !.base = Suffixed(uq.cols[uq.pos], uq.i + 1)]
    /\ UNCHANGED <<parseVars, cmpVars, job, pipe, se, etl>>

\* the end of the while loop: seen[base.lower()] = True, out.append(base)
UqAppend ==
    /\ uq # Idle
    /\ uq.at = "while"
    /\ ~InSeen(uq.base, uq.seen)
    /\ uq' = [uq EXCEPT !.seen = @ \cup {Lower(uq.base)},
                        !.out = Append(@, uq.base),
                        !.pos = @ + 1,
                        !.at = "for"]
    /\ UNCHANGED <<parseVars, cmpVars, job, pipe, se, etl>>

\* return out
UqReturn ==
    /\ uq # Idle
    /\ uq.at = "for"
    /\ uq.pos > Len(uq.cols)
    /\ uq' = [uq EXCEPT !.at = "returned"]
    /\ UNCHANGED <<parseVars, cmpVars, job, pipe, se, etl>>

NextUq == UqTake \/ UqSuffix \/ UqAppend \/ UqReturn

\* one call of _uniquify
SpecUniquify == UqInit /\ [][NextUq]_vars

\* a call of _uniquify that is not suspended forever: it runs in one thread
\* and calls nothing that blocks
SpecUniquifyRuns == UqInit /\ [][NextUq]_vars /\ WF_vars(NextUq)

-----------------------------------------------------------------------------
(* script_executer: the master and workflow modes *)

\* the largest number of views of a modelled workflow
MaxViews == 2

\* the largest number of file names of a modelled view
MaxScripts == 2

\* what happens to the script of one file name: it has no command rows; its
\* text cannot be encoded with SCRIPT_ENCODING, so that ps_file.write raises;
\* PowerShell cannot be started, so that subprocess.run raises OSError;
\* PowerShell returns a non-zero exit code (CalledProcessError); PowerShell
\* returns 0
ScriptKinds == {"no commands", "unencodable", "not started", "fails", "succeeds"}

\* the file names of one view, in the order of the query
ViewScripts == UNION { [1..n -> ScriptKinds] : n \in 0..MaxScripts }

\* the views of the execution: one view or none in master mode, the active
\* views of the workflow in workflow mode
ExecutionViews(mode) ==
    UNION { [1..n -> ViewScripts] :
                n \in 0..(IF mode = "master" THEN 1 ELSE MaxViews) }

ExecuterInit ==
    /\ se \in { [execution_type |-> m, views |-> vs,
                 delete_temp_scripts |-> d, continue_on_error |-> c,
                 at |-> "connect", view |-> 1, script |-> 1, conn |-> "none",
                 temp |-> {}, created |-> {}, started |-> <<>>, failed |-> <<>>] :
                  m \in {"master", "workflow"}, vs \in ExecutionViews("workflow"),
                  d \in BOOLEAN, c \in BOOLEAN }
    /\ se.views \in ExecutionViews(se.execution_type)
    /\ parser = "001"
    /\ input = [kind |-> "missing", name |-> "plan", doc |-> <<>>]
    /\ pc = "idle"
    /\ stmts = <<>>
    /\ idx = 1
    /\ result = NoResult
    /\ plan1 = NoPlan
    /\ plan2 = NoPlan
    /\ cmp12 = NoResult
    /\ cmp21 = NoResult
    /\ job = Idle
    /\ pipe = Idle
    /\ uq = Idle
    /\ etl = Idle

\* conn = connect(...)
SeConnect ==
    /\ se # Idle
    /\ se.at = "connect"
    /\ se' = [se EXCEPT !.conn = "open", !.at = "lookup"]
    /\ UNCHANGED <<parseVars, cmpVars, job, pipe, uq, etl>>

\* the view of the master id, or the views of the workflow: ValueError when
\* there is none
SeLookup ==
    /\ se # Idle
    /\ se.at = "lookup"
    /\ se' = [se EXCEPT !.at = IF se.views = <<>> THEN "except" ELSE "filename"]
    /\ UNCHANGED <<parseVars, cmpVars, job, pipe, uq, etl>>

\* the head of the loops over the views and their file names: sys.exit(0)
\* after the last one; for a file name with command rows the temporary file
\* is created and written
SeFilename ==
    /\ se # Idle
    /\ se.at = "filename"
    /\ IF se.view > Len(se.views)
       THEN se' = [se EXCEPT !.at = "finally"]
       ELSE IF se.script > Len(se.views[se.view])
       THEN se' = [se EXCEPT !.view = @ + 1, !.script = 1]
       ELSE IF se.views[se.view][se.script] = "no commands"
       THEN se' = [se EXCEPT !.script = @ + 1]
       ELSE se' = [se EXCEPT
                      !.temp = @ \cup {<<se.view, se.script>>},
                      !.created = @ \cup {<<se.view, se.script>>},
                      !.at = IF se.views[se.view][se.script] = "unencodable"
                             THEN "except" ELSE "run"]
    /\ UNCHANGED <<parseVars, cmpVars, job, pipe, uq, etl>>

\* the try statement around subprocess.run: the except clause re-raises
\* unless CONTINUE_ON_ERROR, the finally clause removes the temporary file
\* when DELETE_TEMP_SCRIPTS
RunScript ==
    /\ se # Idle
    /\ se.at = "run"
    /\ LET kind == se.views[se.view][se.script]
           raises == \/ kind = "not started"
                     \/ kind = "fails" /\ ~se.continue_on_error
       IN  se' = [se EXCEPT
                     !.started = Append(@, <<se.view, se.script>>),
                     !.failed = IF kind = "succeeds" THEN @
                                ELSE Append(@, <<se.view, se.script>>),
                     !.temp = IF se.delete_temp_scripts
                              THEN @ \ {<<se.view, se.script>>} ELSE @,
                     !.script = IF raises THEN @ ELSE @ + 1,
                     !.at = IF raises THEN "except" ELSE "filename"]
    /\ UNCHANGED <<parseVars, cmpVars, job, pipe, uq, etl>>

\* "except Exception": the error is logged
SeExcept ==
    /\ se # Idle
    /\ se.at = "except"
    /\ se' = [se EXCEPT !.at = "finally"]
    /\ UNCHANGED <<parseVars, cmpVars, job, pipe, uq, etl>>

\* the outer finally clause: conn.close(), and the process ends
SeFinally ==
    /\ se # Idle
    /\ se.at = "finally"
    /\ se' = [se EXCEPT !.conn = "closed", !.at = "ended"]
    /\ UNCHANGED <<parseVars, cmpVars, job, pipe, uq, etl>>

NextExecuter ==
    SeConnect \/ SeLookup \/ SeFilename \/ RunScript \/ SeExcept \/ SeFinally

\* one run of script_executer in master or workflow mode
SpecExecuter == ExecuterInit /\ [][NextExecuter]_vars





-----------------------------------------------------------------------------
(* The system-catalog ETL: the loop over the active servers *)

\* the largest number of active servers of a modelled run
MaxServers == 2

\* the largest number of databases of a modelled server
MaxDatabases == 2

\* system_tables: the active DMVs, in the order of the configuration
SystemTables == << "sys.tables", "sys.indexes" >>

\* sanitize_table_name: "." and "-" replaced by "_"
SanitizeTableName(name) ==
    IF name = "sys.tables" THEN "sys_tables"
    ELSE IF name = "sys.indexes" THEN "sys_indexes"
    ELSE name

\* the target tables
TargetTables == { SanitizeTableName(SystemTables[t]) : t \in 1..Len(SystemTables) }

\* a database: for each DMV, whether the connection and the query on it
\* succeed
DatabaseOutcomes == [1..Len(SystemTables) -> BOOLEAN]

\* a server: its databases after the include filter, none when the list
\* cannot be read
ServerDatabases == UNION { [1..n -> DatabaseOutcomes] : n \in 0..MaxDatabases }

EtlInit ==
    /\ etl \in { [servers |-> ss, at |-> "server", server |-> 1, db |-> 1, dmv |-> 1,
                  prepared |-> {},
                  rows |-> [tbl \in TargetTables |-> {}],
                  cleared |-> [tbl \in TargetTables |-> 0],
                  deleted |-> {}] :
                   ss \in UNION { [1..n -> ServerDatabases] : n \in 0..MaxServers } }
    /\ parser = "001"
    /\ input = [kind |-> "missing", name |-> "plan", doc |-> <<>>]
    /\ pc = "idle"
    /\ stmts = <<>>
    /\ idx = 1
    /\ result = NoResult
    /\ plan1 = NoPlan
    /\ plan2 = NoPlan
    /\ cmp12 = NoResult
    /\ cmp21 = NoResult
    /\ job = Idle
    /\ pipe = Idle
    /\ uq = Idle
    /\ se = Idle

\* the record after the step of one (database, DMV) pair of a pass: the next
\* pair, or the next phase after the last pair
AfterPair(e, next) ==
    IF e.dmv < Len(SystemTables) THEN [e EXCEPT !.dmv = @ + 1]
    ELSE IF e.db < Len(e.servers[e.server]) THEN [e EXCEPT !.db = @ + 1, !.dmv = 1]
    ELSE [e EXCEPT !.db = 1, !.dmv = 1, !.at = next,
                   !.server = IF next = "server" THEN @ + 1 ELSE @]

\* the head of "for server_info in active_servers": a server without
\* databases is skipped; otherwise prepared = set() and the first pass begins
EtlServer ==
    /\ etl # Idle
    /\ etl.at = "server"
    /\ IF etl.server > Len(etl.servers)
       THEN etl' = [etl EXCEPT !.at = "done"]
       ELSE IF etl.servers[etl.server] = <<>>
       THEN etl' = [etl EXCEPT !.server = @ + 1]
       ELSE etl' = [etl EXCEPT !.prepared = {}, !.at = "first", !.db = 1, !.dmv = 1]
    /\ UNCHANGED <<parseVars, cmpVars, job, pipe, uq, se>>

\* the first pass for one (database, DMV) pair: when the query succeeds and
\* the target table is not in prepared, the table is created if needed and
\* cleared
EtlPrepare ==
    /\ etl # Idle
    /\ etl.at = "first"
    /\ LET tgt_table == SanitizeTableName(SystemTables[etl.dmv])
           clears == /\ etl.servers[etl.server][etl.db][etl.dmv]
                     /\ tgt_table \notin etl.prepared
       IN  etl' = AfterPair(
                    IF clears
                    THEN [etl EXCEPT !.deleted = @ \cup etl.rows[tgt_table],
                                     !.rows[tgt_table] = {},
                                     !.cleared[tgt_table] = @ + 1,
                                     !.prepared = @ \cup {tgt_table}]
                    ELSE etl,
                    "second")
    /\ UNCHANGED <<parseVars, cmpVars, job, pipe, uq, se>>

\* the second pass for one (database, DMV) pair: the rows of a query that
\* succeeds are inserted into the target table
EtlInsert ==
    /\ etl # Idle
    /\ etl.at = "second"
    /\ LET tgt_table == SanitizeTableName(SystemTables[etl.dmv])
       IN  etl' = AfterPair(
                    IF etl.servers[etl.server][etl.db][etl.dmv]
                    THEN [etl EXCEPT !.rows[tgt_table] =
                                        @ \cup {<<etl.server, etl.db, SystemTables[etl.dmv]>>}]
                    ELSE etl,
                    "server")
    /\ UNCHANGED <<parseVars, cmpVars, job, pipe, uq, se>>

NextEtl == EtlServer \/ EtlPrepare \/ EtlInsert

\* one run of the ETL over the active servers
SpecEtl == EtlInit /\ [][NextEtl]_vars

-----------------------------------------------------------------------------
(* Properties *)

RECURSIVE SumOver(_, _)
\* sum(s[field] for s in statements)
SumOver(statements, field) ==
    IF statements = <<>> THEN 0
    ELSE Head(statements)[field] + SumOver(Tail(statements), field)

\* the parser holds a result: inside the statement loop or after the return
HasResult == pc \in {"loop", "returned"}

\* C1: the summary counts the statement records, and its totals of elapsed
\* time, CPU time, logical reads and estimated cost are the sums of the
\* statement records' fields (001 and 003, after every statement and at the
\* return).
C1_SummationInvariant ==
    HasResult =>
        /\ result.summary.total_statements = Len(result.statements)
        /\ result.summary.total_elapsed_time_ms
             = SumOver(result.statements, "elapsed_time_ms")
        /\ result.summary.total_cpu_time_ms
             = SumOver(result.statements, "cpu_time_ms")
        /\ result.summary.total_logical_reads
             = SumOver(result.statements, "logical_reads")
        /\ result.summary.total_estimated_cost
             = SumOver(result.statements, "estimated_cost")

\* a returned result of two statements, each with time, reads and cost
C1_Witness ==
    /\ pc = "returned"
    /\ Len(result.statements) = 2
    /\ \A k \in 1..2 :
          /\ result.statements[k].elapsed_time_ms > 0
          /\ result.statements[k].logical_reads > 0
          /\ result.statements[k].estimated_cost > 0

\* the number of metrics in which plan pa has the strictly lower value
LowerCount(pa, pb) ==
    Cardinality({k \in 1..Len(Metrics) :
                    pa.summary[Metrics[k]] < pb.summary[Metrics[k]]})

C2_Holds(pa, pb, c) ==
    (DisplayName(pa) # DisplayName(pb) /\ DisplayName(pa) # "tie"
        /\ DisplayName(pb) # "tie") =>
        c.winner = IF LowerCount(pa, pb) > LowerCount(pb, pa) THEN DisplayName(pa)
                   ELSE IF LowerCount(pb, pa) > LowerCount(pa, pb) THEN DisplayName(pb)
                   ELSE "tie"

\* C2: for two distinct display names, neither "tie", the overall winner is
\* the name of the plan that wins strictly more metrics, and "tie" when the
\* win counts are equal.
C2_OverallWinner ==
    /\ cmp12 # NoResult => C2_Holds(plan1, plan2, cmp12)
    /\ cmp21 # NoResult => C2_Holds(plan2, plan1, cmp21)

\* plan A wins 4 metrics, plan B wins 2, 1 is tied: A is the overall winner
C2_Witness ==
    /\ cmp12 # NoResult
    /\ DisplayName(plan1) = "A"
    /\ DisplayName(plan2) = "B"
    /\ LowerCount(plan1, plan2) = 4
    /\ LowerCount(plan2, plan1) = 2
    /\ cmp12.winner = "A"

C3_Holds(pa, pb, c) ==
    \A k \in 1..Len(Metrics) :
        LET val1 == pa.summary[Metrics[k]]
            val2 == pb.summary[Metrics[k]]
            winner == c.metrics[Metrics[k]]["winner"]
        IN  /\ winner = "tie" <=> val1 = val2
            /\ val1 < val2 => winner = DisplayName(pa)
            /\ val2 < val1 => winner = DisplayName(pb)

\* C3: for each of the seven metrics the recorded winner is "tie" exactly
\* when the two values are equal, and otherwise the name of the plan with the
\* strictly lower value.
C3_LowerIsBetter ==
    /\ cmp12 # NoResult => C3_Holds(plan1, plan2, cmp12)
    /\ cmp21 # NoResult => C3_Holds(plan2, plan1, cmp21)

\* C4: for distinct display names, compare_plans(A, B) and compare_plans(B, A)
\* report the same overall winner ("tie" in both or the same plan in both),
\* and the same winner of each metric.
C4_ComparatorSymmetry ==
    (cmp12 # NoResult /\ cmp21 # NoResult
        /\ DisplayName(plan1) # DisplayName(plan2)) =>
        /\ cmp12.winner = "tie" <=> cmp21.winner = "tie"
        /\ cmp12.winner = cmp21.winner
        /\ \A k \in 1..Len(Metrics) :
              /\ cmp12.metrics[Metrics[k]]["winner"] = "tie"
                   <=> cmp21.metrics[Metrics[k]]["winner"] = "tie"
              /\ cmp12.metrics[Metrics[k]]["winner"]
                   = cmp21.metrics[Metrics[k]]["winner"]

\* both orders compared, plan B the overall winner, a tied and a won metric
C4_Witness ==
    /\ cmp12 # NoResult
    /\ cmp21 # NoResult
    /\ DisplayName(plan1) = "A"
    /\ DisplayName(plan2) = "B"
    /\ cmp12.winner = "B"
    /\ cmp21.winner = "B"
    /\ \E k \in 1..Len(Metrics) : cmp12.metrics[Metrics[k]]["winner"] = "tie"
    /\ \E k \in 1..Len(Metrics) : cmp21.metrics[Metrics[k]]["winner"] = "A"

\* C5: every statement record has wait_time_ms = elapsed_time_ms - cpu_time_ms
\* (001 and 003).
C5_StatementWaitTime ==
    HasResult =>
        \A k \in 1..Len(result.statements) :
            result.statements[k].wait_time_ms
              = result.statements[k].elapsed_time_ms - result.statements[k].cpu_time_ms

\* C6: the returned summary has total_wait_time_ms = total_elapsed_time_ms -
\* total_cpu_time_ms, negative when the CPU time is the larger.
C6_WaitTimeIdentity ==
    pc = "returned" =>
        result.summary.total_wait_time_ms
          = result.summary.total_elapsed_time_ms - result.summary.total_cpu_time_ms

\* a returned summary with more CPU than elapsed time: a negative wait time
C6_Witness ==
    /\ pc = "returned"
    /\ result.summary.total_cpu_time_ms > result.summary.total_elapsed_time_ms
    /\ result.summary.total_wait_time_ms < 0

\* C7: the parser raises only for a missing file or a document that is not
\* well-formed XML; a well-formed document never makes it raise.
C7_RaisesOnlyOnUnreadableInput ==
    pc = "raised" => input.kind # "xml"

\* C8: an attribute absent from a statement, operator, missing-index or
\* column element yields 0 in a numeric field and the empty string in a
\* string field of the record.
C8_AbsentAttributeDefaults ==
    HasResult =>
        \A k \in 1..Len(result.statements) :
            LET doc == input.doc
                st == result.statements[k]
                absent(e, a) == a \notin DOMAIN doc[e].attrs
                ops == FindAll(doc, stmts[k], "RelOp")
                groups == SelectSeq(FindAll(doc, stmts[k], "MissingIndexGroup"),
                                    LAMBDA g : Find(doc, g, "MissingIndex") # 0)
                names(cols) == {cols[i] : i \in 1..Len(cols)}
            IN  /\ absent(stmts[k], "StatementId") => st.statement_id = ""
                /\ absent(stmts[k], "StatementType") => st.statement_type = ""
                /\ absent(stmts[k], "StatementOptmLevel") => st.optimizer_level = ""
                /\ absent(stmts[k], "StatementOptmEarlyAbortReason")
                     => st.early_abort_reason = ""
                /\ absent(stmts[k], "StatementSubTreeCost") => st.estimated_cost = 0
                /\ absent(stmts[k], "StatementEstRows") => st.estimated_rows = 0
                /\ \A j \in 1..Len(ops) :
                      LET node == st.node_details[j]
                      IN  /\ absent(ops[j], "LogicalOp") => node.node_type = ""
                          /\ absent(ops[j], "PhysicalOp") => node.physical_op = ""
                          /\ absent(ops[j], "EstimatedTotalSubtreeCost")
                               => node.estimated_cost = 0
                          /\ absent(ops[j], "EstimateRows") => node.estimated_rows = 0
                          /\ absent(ops[j], "EstimateCPU") => node.estimated_cpu_cost = 0
                          /\ absent(ops[j], "EstimateIO") => node.estimated_io_cost = 0
                          /\ absent(ops[j], "EstimateExecutions")
                               => node.estimated_executions = 0
                /\ \A g \in 1..Len(groups) :
                      LET hint == st.missing_indexes[g]
                          mi == Find(doc, groups[g], "MissingIndex")
                      IN  /\ absent(groups[g], "Impact") => hint.impact_percent = 0
                          /\ absent(mi, "Database") => hint.database = ""
                          /\ absent(mi, "Schema") => hint.schema = ""
                          /\ absent(mi, "Table") => hint.table = ""
                          /\ PyNone \notin names(hint.equality_columns)
                                             \cup names(hint.inequality_columns)
                                             \cup names(hint.include_columns)

\* C9: logical_reads, actual_rows and actual_executions of a statement are
\* those of a runtime-counter element of thread "0" below it, wherever it
\* stands, and 0 when the statement has none (001 and 003).
C9_ThreadZeroCounters ==
    HasResult =>
        \A k \in 1..Len(result.statements) :
            LET doc == input.doc
                st == result.statements[k]
                zero == FindAllAttrEq(doc, stmts[k], "RunTimeCountersPerThread",
                                      "Thread", "0")
            IN  IF zero = <<>>
                THEN /\ st.logical_reads = 0
                     /\ st.actual_rows = 0
                     /\ st.actual_executions = 0
                ELSE \E i \in 1..Len(zero) :
                        /\ st.logical_reads = GetInt(doc[zero[i]], "ActualLogicalReads", 0)
                        /\ st.actual_rows = GetInt(doc[zero[i]], "ActualRows", 0)
                        /\ st.actual_executions
                             = GetInt(doc[zero[i]], "ActualExecutions", 0)

\* the reference of the first match among the index-scan object, the
\* table-scan object and the update/insert/delete object of an operator
FirstMatchTableIndex(doc, op) ==
    IF IndexScanTableIndex(doc, op) # "" THEN IndexScanTableIndex(doc, op)
    ELSE IF TableScanTableIndex(doc, op, "") # "" THEN TableScanTableIndex(doc, op, "")
    ELSE UpdateOpTableIndex(doc, op, <<"Update", "Insert", "Delete">>)

\* C10: table_index of an operator node is the reference of the first match
\* in the order index-scan object, table-scan object, update/insert/delete
\* object; a table-scan object never replaces an index-scan object found.
C10_FirstMatchWins ==
    HasResult =>
        \A k \in 1..Len(result.statements) :
            LET ops == FindAll(input.doc, stmts[k], "RelOp")
            IN  \A j \in 1..Len(ops) :
                    result.statements[k].node_details[j].table_index
                      = FirstMatchTableIndex(input.doc, ops[j])

\* the child of a RelOp that makes it a scan, seek, update, insert or delete
\* operator (0 when the operator is of another kind)
OwnAccessElement(doc, op) ==
    First(SelectSeq(Children(doc, op),
                    LAMBDA j : doc[j].tag \in {"IndexScan", "TableScan", "Update",
                                               "Insert", "Delete"}))

\* ref ends with the bracketed name: it is the name alone or follows the
\* database, schema and table parts of the object
EndsWithName(ref, obj, name) ==
    LET d == "[" \o GetOr(obj, "Database", "") \o "]."
        s == "[" \o GetOr(obj, "Schema", "") \o "]."
        t == "[" \o GetOr(obj, "Table", "") \o "]."
    IN  \E prefix \in {"", s, d \o s, s \o t, d \o s \o t} :
            ref = prefix \o "[" \o name \o "]"

\* C11: table_index of an operator node is non-empty only if the operator
\* itself is a scan, seek, update, insert or delete operator (a join over
\* scans has an empty table_index); the reference ends with the index name
\* when the operator's object carries one, and with the table name otherwise.
C11_OwnOperatorOnly ==
    HasResult =>
        \A k \in 1..Len(result.statements) :
            LET doc == input.doc
                ops == FindAll(doc, stmts[k], "RelOp")
            IN  \A j \in 1..Len(ops) :
                    LET ref == result.statements[k].node_details[j].table_index
                        own == OwnAccessElement(doc, ops[j])
                        obj == IF own # 0 THEN Find(doc, own, "Object") ELSE 0
                    IN  /\ ref # "" => own # 0
                        /\ (ref # "" /\ obj # 0) =>
                              EndsWithName(ref, doc[obj],
                                  IF GetOr(doc[obj], "Index", "") # ""
                                  THEN doc[obj].attrs["Index"]
                                  ELSE GetOr(doc[obj], "Table", ""))

Abs(x) == IF x < 0 THEN -x ELSE x

C12_Holds(pa, pb, c) ==
    \A k \in 1..Len(Metrics) :
        LET a == pa.summary[Metrics[k]]
            b == pb.summary[Metrics[k]]
            stored == c.metrics[Metrics[k]]["percent_difference"]
        IN  IF b # 0 THEN 2 * Abs(stored * b - (a - b) * 10000) <= Abs(b)
            ELSE IF a = 0 THEN stored = 0 ELSE stored = 10000

\* C12: the percent difference stored for a metric with plan-1 value a and
\* plan-2 value b is (a - b) / b * 100 rounded to two decimals (the nearest
\* hundredth) when b is not 0; when b is 0 it is 0 for a = 0 and 100 for every
\* other a, negative ones included.
C12_PercentDifference ==
    /\ cmp12 # NoResult => C12_Holds(plan1, plan2, cmp12)
    /\ cmp21 # NoResult => C12_Holds(plan2, plan1, cmp21)

\* both orders compared: costs 1 and 3 store -66.67 one way and 200 the
\* other, a negative wait time over a zero one stores 100
C12_Witness ==
    /\ cmp12 # NoResult
    /\ cmp21 # NoResult
    /\ plan1.summary.total_estimated_cost = 1
    /\ plan2.summary.total_estimated_cost = 3
    /\ cmp12.metrics["total_estimated_cost"]["percent_difference"] = -6667
    /\ cmp21.metrics["total_estimated_cost"]["percent_difference"] = 20000
    /\ plan1.summary.total_wait_time_ms < 0
    /\ plan2.summary.total_wait_time_ms = 0
    /\ cmp12.metrics["total_wait_time_ms"]["percent_difference"] = 10000

\* the position of a metric in the fixed order of the metrics
MetricPosition(m) == CHOOSE k \in 1..Len(Metrics) : Metrics[k] = m

\* winner_reasons holds one entry for each metric of the set, in the order
\* of the metrics, and no other entry
ReasonsAreExactly(c, wanted) ==
    LET reasons == c.winner_reasons
    IN  /\ \A i \in 1..Len(reasons) : reasons[i].metric \in wanted
        /\ \A m \in wanted : \E i \in 1..Len(reasons) : reasons[i].metric = m
        /\ \A i \in 1..Len(reasons) : \A j \in 1..Len(reasons) :
              i < j => MetricPosition(reasons[i].metric) < MetricPosition(reasons[j].metric)

\* C13 as stated: winner_reasons holds exactly one string per metric whose
\* per-metric winner equals the overall winner, in the fixed metric order,
\* and no string for any other metric.
C13_WinnerReasons ==
    \A c \in {cmp12, cmp21} \ {NoResult} :
        ReasonsAreExactly(c, {m \in DOMAIN c.metrics : c.metrics[m]["winner"] = c.winner})

\* C13 amended: winner_reasons holds exactly one string per metric whose
\* recorded winner is not "tie" and equals the overall winner, in the fixed
\* metric order, and no string for any other metric; each string names the
\* overall winner.
C13_WinnerReasonsAmended ==
    \A c \in {cmp12, cmp21} \ {NoResult} :
        /\ ReasonsAreExactly(c, {m \in DOMAIN c.metrics :
                                    /\ c.metrics[m]["winner"] # "tie"
                                    /\ c.metrics[m]["winner"] = c.winner})
        /\ \A i \in 1..Len(c.winner_reasons) : c.winner_reasons[i].winner = c.winner

\* plan A wins overall with four metrics, plan B wins two, one is tied: four
\* reasons
C13_Witness ==
    /\ cmp12 # NoResult
    /\ cmp12.winner = "A"
    /\ DisplayName(plan2) = "B"
    /\ LowerCount(plan1, plan2) = 4
    /\ LowerCount(plan2, plan1) = 2
    /\ Len(cmp12.winner_reasons) = 4

\* the two plans have equal values in all seven metrics
AllMetricsEqual(pa, pb) ==
    \A k \in 1..Len(Metrics) : pa.summary[Metrics[k]] = pb.summary[Metrics[k]]

\* C14: when all seven metrics are equal between the two plans, the overall
\* winner is "tie" and winner_reasons is empty, whatever the display names
\* (equal names and the name "tie" included).
C14_TieHandling ==
    /\ (cmp12 # NoResult /\ AllMetricsEqual(plan1, plan2)) =>
          cmp12.winner = "tie" /\ cmp12.winner_reasons = <<>>
    /\ (cmp21 # NoResult /\ AllMetricsEqual(plan2, plan1)) =>
          cmp21.winner = "tie" /\ cmp21.winner_reasons = <<>>

\* two plans of two statements with equal non-zero metrics, one of them
\* named "tie", compared in both orders
C14_Witness ==
    /\ cmp12 # NoResult
    /\ cmp21 # NoResult
    /\ AllMetricsEqual(plan1, plan2)
    /\ plan1.summary.total_statements = 2
    /\ plan1.summary.total_estimated_cost > 0
    /\ DisplayName(plan1) = "tie"
    /\ DisplayName(plan2) = "A"
    /\ cmp12.winner_reasons = <<>>

\* the children of every Warnings element below a statement, document order
WarningChildren(doc, stmt) ==
    LET containers == FindAll(doc, stmt, "Warnings")
    IN  Flatten([k \in 1..Len(containers) |-> Children(doc, containers[k])])

\* C15: every child of every Warnings container under a statement becomes
\* one warning record, in order; its type is the child's tag, its
\* statement_id the id of the enclosing statement, and it carries every
\* attribute of the child with its value, whatever the attribute is named.
C15_WarningRecords ==
    HasResult =>
        LET doc == input.doc
            expected == Flatten([k \in 1..Len(result.statements) |->
                            LET kids == WarningChildren(doc, stmts[k])
                            IN  [i \in 1..Len(kids) |->
                                    [child |-> kids[i], stmt |-> stmts[k]]]])
        IN  /\ Len(result.warnings) = Len(expected)
            /\ \A i \in 1..Len(expected) :
                  LET record == result.warnings[i]
                      child == doc[expected[i].child]
                  IN  /\ record["type"] = child.tag
                      /\ record["statement_id"]
                           = Get(doc[expected[i].stmt], "StatementId")
                      /\ \A a \in DOMAIN child.attrs : record[a] = child.attrs[a]

\* the column names of all the groups of a MissingIndex tagged with a usage,
\* document order
TaggedColumns(doc, mi, usage) ==
    LET tagged == SelectSeq(FindAll(doc, mi, "ColumnGroup"),
                            LAMBDA g : Get(doc[g], "Usage") = usage)
    IN  Flatten([k \in 1..Len(tagged) |-> ColumnNames(doc, tagged[k])])

\* the MissingIndexGroup elements of a statement that hold a MissingIndex
HintElements(doc, stmt) ==
    SelectSeq(FindAll(doc, stmt, "MissingIndexGroup"),
              LAMBDA g : Find(doc, g, "MissingIndex") # 0)

\* C16: for every missing-index hint the three column lists hold exactly the
\* column names of the groups tagged EQUALITY, INEQUALITY and INCLUDE, in
\* document order, also when several groups carry the same usage; columns of
\* a group with another usage are in no list.
C16_MissingIndexPartition ==
    HasResult =>
        \A k \in 1..Len(result.statements) :
            LET doc == input.doc
                groups == HintElements(doc, stmts[k])
                hints == result.statements[k].missing_indexes
            IN  /\ Len(hints) = Len(groups)
                /\ \A g \in 1..Len(groups) :
                      LET mi == Find(doc, groups[g], "MissingIndex")
                      IN  /\ hints[g].equality_columns
                               = TaggedColumns(doc, mi, "EQUALITY")
                          /\ hints[g].inequality_columns
                               = TaggedColumns(doc, mi, "INEQUALITY")
                          /\ hints[g].include_columns
                               = TaggedColumns(doc, mi, "INCLUDE")

\* two hints agree on database, schema, table and the three column lists
SameIndex(h1, h2) ==
    /\ h1.database = h2.database
    /\ h1.schema = h2.schema
    /\ h1.table = h2.table
    /\ h1.equality_columns = h2.equality_columns
    /\ h1.inequality_columns = h2.inequality_columns
    /\ h1.include_columns = h2.include_columns

\* the hints of all statement records, in statement order
StatementHints(res) ==
    Flatten([k \in 1..Len(res.statements) |-> res.statements[k].missing_indexes])

\* C17: in 003 no two entries of summary.missing_indexes agree on the six
\* fields, every statement-level hint has an agreeing entry, and each entry
\* is the first statement-level hint that agrees with it (with its impact),
\* the entries in the order of those hints; in 001 summary.missing_indexes
\* is the concatenation of the statements' lists, duplicates kept.
C17_SummaryMissingIndexes ==
    HasResult =>
        LET all == StatementHints(result)
            kept == result.summary.missing_indexes
            isFirst(i) == \A j \in 1..(i - 1) : ~SameIndex(all[j], all[i])
            firsts == SelectSeq(Indices(all), isFirst)
        IN  IF parser = "003"
            THEN /\ \A i \in 1..Len(kept) : \A j \in 1..Len(kept) :
                       i # j => ~SameIndex(kept[i], kept[j])
                 /\ \A i \in 1..Len(all) :
                       \E j \in 1..Len(kept) : SameIndex(kept[j], all[i])
                 /\ kept = [n \in 1..Len(firsts) |-> all[firsts[n]]]
            ELSE kept = all

\* 003 has returned from two statements with four hints, three of them for
\* the same index: the summary keeps the first of the three, with its impact
\* of 5.0, and the fourth
C17_Witness ==
    /\ pc = "returned"
    /\ parser = "003"
    /\ Len(result.statements) = 2
    /\ Len(StatementHints(result)) = 4
    /\ SameIndex(StatementHints(result)[1], StatementHints(result)[2])
    /\ SameIndex(StatementHints(result)[1], StatementHints(result)[3])
    /\ Len(result.summary.missing_indexes) = 2
    /\ result.summary.missing_indexes[1].impact_percent = PyFloat(5)
    /\ result.summary.missing_indexes[2].include_columns = <<"d", "e">>

\* C18: node_details of every statement record lists the statement's
\* operators in document order, and the node at position i has node_id i:
\* the ids start at 1, increase by 1 and restart for each statement.
C18_NodeIds ==
    HasResult =>
        \A k \in 1..Len(result.statements) :
            LET doc == input.doc
                ops == FindAll(doc, stmts[k], "RelOp")
                nodes == result.statements[k].node_details
            IN  /\ Len(nodes) = Len(ops)
                /\ \A i \in 1..Len(nodes) :
                      /\ nodes[i].node_id = i
                      /\ nodes[i].logical_op = Get(doc[ops[i]], "LogicalOp")
                      /\ nodes[i].estimated_cost
                           = GetFloat(doc[ops[i]], "EstimatedTotalSubtreeCost", 0)

\* a returned result of two statements, the first with the three operators
\* of a join numbered 1, 2, 3 and the second numbered from 1 again
C18_Witness ==
    /\ pc = "returned"
    /\ Len(result.statements) = 2
    /\ Len(result.statements[1].node_details) = 3
    /\ result.statements[1].node_details[1].logical_op = "Inner Join"
    /\ result.statements[1].node_details[3].logical_op = "Table Scan"
    /\ result.statements[1].node_details[3].node_id = 3
    /\ Len(result.statements[2].node_details) = 2
    /\ result.statements[2].node_details[1].node_id = 1
    /\ result.statements[2].node_details[2].node_id = 2

\* the OutputList child of an operator (0 when it has none)
OwnOutputList(doc, op) == First(ChildrenTagged(doc, op, "OutputList"))

\* the non-empty column names of the references of an output list
NamedColumns(doc, list) ==
    LET refs == FindAll(doc, list, "ColumnReference")
    IN  SelectSeq([i \in 1..Len(refs) |-> GetOr(doc[refs[i]], "Column", "")],
                  LAMBDA c : c # "")

\* C19: for every operator with an output list, output_list renders the
\* first 10 column names followed by "..." when the list has more than 10
\* named columns, and all the names without a marker when it has 10 or fewer.
C19_OutputListTruncation ==
    HasResult =>
        \A k \in 1..Len(result.statements) :
            LET doc == input.doc
                ops == FindAll(doc, stmts[k], "RelOp")
            IN  \A i \in 1..Len(ops) :
                    LET list == OwnOutputList(doc, ops[i])
                        named == NamedColumns(doc, list)
                        rendered == result.statements[k].node_details[i].output_list
                    IN  list # 0 =>
                            IF Len(named) > 10
                            THEN rendered = Join(", ", SubSeq(named, 1, 10)) \o "..."
                            ELSE rendered = Join(", ", named)

\* a returned result with an operator of eleven named columns rendered with
\* the marker, and an operator of ten named columns and two unnamed
\* references rendered without it
C19_Witness ==
    /\ pc = "returned"
    /\ Len(result.statements) = 2
    /\ Len(result.statements[1].node_details) = 1
    /\ Len(result.statements[2].node_details) = 1
    /\ Len(NamedColumns(input.doc, OwnOutputList(input.doc,
                First(FindAll(input.doc, stmts[1], "RelOp"))))) = 11
    /\ result.statements[1].node_details[1].output_list
         = "c1, c2, c3, c4, c5, c6, c7, c8, c9, c10..."
    /\ Len(FindAll(input.doc, stmts[2], "ColumnReference")) = 12
    /\ result.statements[2].node_details[1].output_list
         = "c1, c2, c3, c4, c5, c6, c7, c8, c9, c10"

\* C20: summary.optimizer_timeouts is the number of statement records whose
\* early_abort_reason is exactly "TimeOut"; any other reason, or none, does
\* not count.
C20_OptimizerTimeouts ==
    HasResult =>
        result.summary.optimizer_timeouts
          = Cardinality({k \in 1..Len(result.statements) :
                            result.statements[k].early_abort_reason = "TimeOut"})

\* a returned result of two statements, one aborted with "TimeOut" and one
\* with "timeout": one optimizer timeout
C20_Witness ==
    /\ pc = "returned"
    /\ Len(result.statements) = 2
    /\ result.statements[1].early_abort_reason = "TimeOut"
    /\ result.statements[2].early_abort_reason = "timeout"
    /\ result.summary.optimizer_timeouts = 1

\* C21: a statement without a QueryTimeStats element has CPU, elapsed and
\* wait time 0; a statement without a per-thread runtime-counter element has
\* logical reads, actual rows and actual executions 0; an operator without a
\* RunTimeInformation element has actual rows, executions, rebinds and
\* rewinds 0.
C21_AbsentRuntimeData ==
    HasResult =>
        \A k \in 1..Len(result.statements) :
            LET doc == input.doc
                st == result.statements[k]
                ops == FindAll(doc, stmts[k], "RelOp")
            IN  /\ FindAll(doc, stmts[k], "QueryTimeStats") = <<>> =>
                      /\ st.cpu_time_ms = 0
                      /\ st.elapsed_time_ms = 0
                      /\ st.wait_time_ms = 0
                /\ FindAll(doc, stmts[k], "RunTimeCountersPerThread") = <<>> =>
                      /\ st.logical_reads = 0
                      /\ st.actual_rows = 0
                      /\ st.actual_executions = 0
                /\ \A i \in 1..Len(ops) :
                      ChildrenTagged(doc, ops[i], "RunTimeInformation") = <<>> =>
                          /\ st.node_details[i].actual_rows = 0
                          /\ st.node_details[i].actual_executions = 0
                          /\ st.node_details[i].actual_rebinds = 0
                          /\ st.node_details[i].actual_rewinds = 0

NameAndSummary(plan) ==
    [plan_name |-> IF "config_name" \in DOMAIN plan THEN plan.config_name
                   ELSE plan.plan_name,
     summary |-> plan.summary]

\* C23: a call of compare_plans leaves both plans as they were (statements,
\* warnings and summary included), the comparison it returns is the one of the
\* two display names and the two summaries alone, and a further call on the
\* same plans returns an equal comparison
C23_Frame ==
    [][ /\ plan1' = plan1
        /\ plan2' = plan2
        /\ cmp12 # NoResult => cmp12' = cmp12
        /\ cmp12' # NoResult =>
               cmp12' = compare_plans(NameAndSummary(plan1), NameAndSummary(plan2))
        /\ cmp21' # NoResult =>
               cmp21' = compare_plans(NameAndSummary(plan2), NameAndSummary(plan1)) ]_vars

\* both orders compared for plans with statements, warnings and hints
C23_Witness ==
    /\ cmp12 # NoResult
    /\ cmp21 # NoResult
    /\ Len(plan1.statements) = 2
    /\ plan1.warnings # <<>>
    /\ plan1.summary.missing_indexes # <<>>
    /\ "config_name" \in DOMAIN plan1
    /\ "config_name" \notin DOMAIN plan2
    /\ plan2.statements # <<>>
    /\ cmp12.winner # "tie"

\* the configured plans of the run, none for a configuration without planFiles
ConfiguredPlans ==
    IF "planFiles" \in DOMAIN job.config THEN job.config.planFiles ELSE <<>>

\* the configured plans marked active, in the order of the configuration
MarkedActive == SelectSeq(ConfiguredPlans, LAMBDA plan : plan.active)

\* fewer than two plans configured, fewer than two active, or one of the
\* first two active plan files absent
Refused ==
    \/ Len(ConfiguredPlans) < 2
    \/ Len(MarkedActive) < 2
    \/ MarkedActive[1].path.kind = "missing"
    \/ MarkedActive[2].path.kind = "missing"

\* C25: a refused run ends with status 1, nothing parsed and no output; any
\* other run hands to the parser the files of the first two active plans, in
\* that order, and nothing else; and an output is written only after both were
\* parsed and compared, and holds these two plans and their comparison
C25_Main ==
    job # Idle =>
        /\ (Refused /\ job.phase # "validate") =>
               /\ job.phase = "exit"
               /\ job.status = 1
               /\ job.parsed = <<>>
               /\ pc = "idle"
               /\ plan1 = NoPlan
               /\ plan2 = NoPlan
               /\ job.output = NoResult
        /\ ~Refused =>
               /\ Len(job.parsed) <= 2
               /\ \A k \in 1..Len(job.parsed) :
                      job.parsed[k] = MarkedActive[k].path.name
               /\ plan1 # NoPlan =>
                      plan1 = [config_name |-> MarkedActive[1].name,
                               config_description |-> MarkedActive[1].description]
                              @@ ParsedPlan("001", MarkedActive[1].path)
               /\ plan2 # NoPlan =>
                      plan2 = [config_name |-> MarkedActive[2].name,
                               config_description |-> MarkedActive[2].description]
                              @@ ParsedPlan("001", MarkedActive[2].path)
        /\ job.output # NoResult =>
               /\ Len(job.parsed) = 2
               /\ plan1 # NoPlan
               /\ plan2 # NoPlan
               /\ job.output = [plan1 |-> plan1, plan2 |-> plan2,
                                comparison |-> compare_plans(plan1, plan2)]
               /\ job.status = 0
        /\ job.status = 0 => job.output # NoResult

\* an output written for a configuration whose first entry is inactive and
\* whose other two entries name different files
C25_Witness ==
    /\ job # Idle
    /\ job.output # NoResult
    /\ Len(ConfiguredPlans) = 3
    /\ ~ConfiguredPlans[1].active
    /\ ConfiguredPlans[2].path.name = "q"
    /\ ConfiguredPlans[3].path.name = "p"

\* step k of the pipeline ran and its subprocess returned exit code 0
ReturnedZero(k) ==
    /\ \E n \in 1..Len(pipe.returned) : pipe.returned[n] = k
    /\ ~pipe.outcomes[k].raised
    /\ pipe.outcomes[k].returncode = 0

\* step k of the pipeline was started
WasStarted(k) == \E n \in 1..Len(pipe.started) : pipe.started[n] = k

\* C24: step 2 is started only after step 1 returned exit code 0, step 3 only
\* after step 2 returned exit code 0; a step that was not started is recorded
\* as failed; and overall success is reported exactly when the three steps ran
\* and returned exit code 0
C24_Pipeline ==
    pipe # Idle =>
        /\ WasStarted(2) => ReturnedZero(1)
        /\ WasStarted(3) => ReturnedZero(2)
        /\ \A k \in 1..Len(pipe.results) :
              /\ ~WasStarted(k) => ~pipe.results[k]
              /\ pipe.results[k] <=> ReturnedZero(k)
        /\ pipe.all_success =>
              /\ pipe.at = "returned"
              /\ \A k \in 1..3 : ReturnedZero(k)
        /\ (pipe.at = "returned" /\ pipe.proceed) =>
              /\ Len(pipe.results) = 3
              /\ pipe.all_success <=> \A k \in 1..3 : ReturnedZero(k)

\* the first step returned 0, the second failed, and the third was recorded
\* without being started
C24_Witness ==
    /\ pipe # Idle
    /\ pipe.at = "returned"
    /\ pipe.started = <<1, 2>>
    /\ pipe.results = <<TRUE, FALSE, FALSE>>
    /\ pipe.outcomes[3].returncode = 0
    /\ ~pipe.outcomes[3].raised
    /\ ~pipe.all_success

\* the names a and b are equal when compared case-insensitively
SameIgnoringCase(a, b) == Lower(a) = Lower(b)

\* the names returned so far are pairwise different, ignoring case, and the
\* name at each position is the input name when no earlier output equals that
\* name ignoring case, and otherwise the input name with a suffix _k, k >= 2
UniquePrefix ==
    /\ Len(uq.out) <= Len(uq.cols)
    /\ \A m, n \in 1..Len(uq.out) : m < n => ~SameIgnoringCase(uq.out[m], uq.out[n])
    /\ \A n \in 1..Len(uq.out) :
          IF \E m \in 1..(n - 1) : SameIgnoringCase(uq.out[m], uq.cols[n])
          THEN \E k \in 2..Len(DecimalDigits) : uq.out[n] = Suffixed(uq.cols[n], k)
          ELSE uq.out[n] = uq.cols[n]

\* C26: _uniquify returns; what it returns has the length of its input, no
\* two of its names are equal ignoring case, and each name is the input name
\* of its position, unchanged or with a suffix _k, k >= 2
C26_Uniquify ==
    /\ [](uq # Idle => (UniquePrefix /\ (uq.at = "returned" => Len(uq.out) = Len(uq.cols))))
    /\ <>(uq # Idle /\ uq.at = "returned")

\* a returned list whose third name needed the suffix _3 because the input
\* held the suffixed name of the second
C26_Witness ==
    /\ uq # Idle
    /\ uq.at = "returned"
    /\ uq.cols = << << "a" >>, << "A", "_", "2" >>, << "A" >> >>
    /\ uq.out = << << "a" >>, << "A", "_", "2" >>, << "A", "_", "3" >> >>

\* the scripts with command rows, in the order of the views and file names
ScriptsInOrder ==
    LET pairs == { <<v, s>> : v \in 1..MaxViews + 1, s \in 1..MaxScripts + 1 }
    IN  { p \in pairs : /\ p[1] <= Len(se.views)
                        /\ p[2] <= Len(se.views[p[1]])
                        /\ se.views[p[1]][p[2]] # "no commands" }

\* script p comes before script q
ScriptBefore(p, q) == p[1] < q[1] \/ (p[1] = q[1] /\ p[2] < q[2])

\* C27: with DELETE_TEMP_SCRIPTS no temporary file created is left when the
\* next script is about to be started or the process has ended; without
\* CONTINUE_ON_ERROR no script is started after one that failed; with it the
\* process ends only after every script was started, unless one could not be
\* written or started; and the connection is closed when the process has ended
C27_TempFilesAndErrors ==
    se # Idle =>
        /\ (se.delete_temp_scripts /\ se.at \in {"filename", "ended"}) => se.temp = {}
        /\ ~se.continue_on_error =>
              \A n \in 1..Len(se.started) :
                  (\E m \in 1..Len(se.failed) : se.failed[m] = se.started[n])
                      => n = Len(se.started)
        /\ (/\ se.continue_on_error
            /\ se.at = "ended"
            /\ \A p \in ScriptsInOrder :
                   se.views[p[1]][p[2]] \in {"fails", "succeeds"}) =>
              \A p \in ScriptsInOrder : \E n \in 1..Len(se.started) : se.started[n] = p
        /\ se.at = "ended" => se.conn = "closed"

\* the metrics in which the summary s has the lower value than the summary t
LowerIn(s, t) == { k \in 1..Len(Metrics) : s[Metrics[k]] < t[Metrics[k]] }

\* C28: whatever the two display names are, plan1_wins is the number of
\* metrics in which plan 1 has the lower value and plan2_wins the number in
\* which plan 2 has it, so that no tied metric and no metric of the other plan
\* is counted; and each metric record holds the value of plan 1 under the name
\* of plan 1 and the value of plan 2 under the name of plan 2
C28_WinTally ==
    cmp12 # NoResult =>
        /\ Wins(plan1, plan2) = << Cardinality(LowerIn(plan1.summary, plan2.summary)),
                                   Cardinality(LowerIn(plan2.summary, plan1.summary)) >>
        /\ \A k \in 1..Len(Metrics) :
              LET record == cmp12.metrics[Metrics[k]]
              IN  /\ DisplayName(plan1) \in DOMAIN record
                  /\ DisplayName(plan2) \in DOMAIN record
                  /\ record[DisplayName(plan1)] = plan1.summary[Metrics[k]]
                  /\ record[DisplayName(plan2)] = plan2.summary[Metrics[k]]

\* the elements of the document that are children of a Warnings element
WarningElements(doc) ==
    { k \in 1..Len(doc) : doc[k].parent # 0 /\ doc[doc[k].parent].tag = "Warnings" }

\* the operator elements of the document
OperatorElements(doc) == { k \in 1..Len(doc) : doc[k].tag = "RelOp" }

RECURSIVE NodeCount(_)
\* the number of node_details entries of the statement records
NodeCount(statements) ==
    IF statements = <<>> THEN 0
    ELSE Len(Head(statements).node_details) + NodeCount(Tail(statements))

\* C29: in a returned result the node_details of the statement records hold
\* as many entries as the document has operator elements, the warnings as many
\* as it has warning elements, and total_warnings is that number: no operator
\* and no warning is recorded under two statements
C29_RecordedOnce ==
    (pc = "returned" /\ input.kind = "xml") =>
        /\ NodeCount(result.statements) = Cardinality(OperatorElements(input.doc))
        /\ Len(result.warnings) = Cardinality(WarningElements(input.doc))
        /\ result.summary.total_warnings = Cardinality(WarningElements(input.doc))

\* the (server, database, DMV) queries of the run that succeed and whose rows
\* go to the target table tbl
SucceededFor(tbl) ==
    { q \in { <<s, d, SystemTables[t]>> :
                s \in 1..MaxServers + 1, d \in 1..MaxDatabases + 1,
                t \in 1..Len(SystemTables) } :
        /\ q[1] <= Len(etl.servers)
        /\ q[2] <= Len(etl.servers[q[1]])
        /\ SanitizeTableName(q[3]) = tbl
        /\ \E t \in 1..Len(SystemTables) :
              SystemTables[t] = q[3] /\ etl.servers[q[1]][q[2]][t] }

\* C30: no target table is cleared more than once in a run, no row inserted
\* in the run is deleted, and at the end of the run each target table holds
\* the rows of every query that succeeded
C30_ClearedOnce ==
    etl # Idle =>
        /\ \A tbl \in TargetTables : etl.cleared[tbl] <= 1
        /\ etl.deleted = {}
        /\ etl.at = "done" => \A tbl \in TargetTables : etl.rows[tbl] = SucceededFor(tbl)

====
